---- MODULE Spec2Model ----
(***************************************************************************)
(* Growth-automation orchestration layer of socialmediamanager.            *)
(*                                                                         *)
(* FollowSpec : FollowAutomation (src/src/core/follow_automation.py):      *)
(*              campaigns, the quota check, execute_follow_action and      *)
(*              run_campaign, run as asyncio tasks.  A coroutine runs      *)
(*              without interruption up to its next real suspension; the   *)
(*              only one in this class is asyncio.sleep in _human_delay,   *)
(*              so every action below is one such uninterrupted segment.   *)
(*                                                                         *)
(* LedgerSpec : the gamification ledger of GrowthEngine                    *)
(*              (src/src/growth_engine/growth_engine.py) and the two       *)
(*              scheduler jobs that write to it                            *)
(*              (src/growth_engine_scheduler.py).  None of these           *)
(*              coroutines suspends before it returns, so each call is     *)
(*              one action.                                                *)
(*                                                                         *)
(* LeaderSpec : update_leaderboard applied to user populations drawn by    *)
(*              the initial condition.                                     *)
(*                                                                         *)
(* Time is the integer clock `now`.  One tick stands for one value of      *)
(* int(time.time()); the hour of the quota window is HourTicks ticks and   *)
(* the hourly budgets are divided by QuotaScale, so that a budget can be   *)
(* exhausted inside the bounded action log.                                *)
(***************************************************************************)
EXTENDS Integers, Sequences, FiniteSets, Bags, TLC

VARIABLES
    now,              \* the wall clock (time.time() / datetime.now())
    heap,             \* every FollowCampaign object ever constructed, by creation order
    campaigns,        \* FollowAutomation.campaigns: campaign id -> index into heap
    actions,          \* FollowAutomation.actions: the action log
    target_accounts,  \* FollowAutomation.target_accounts (usernames stored)
    executor_calls,   \* number of times _execute_platform_action was invoked
    task,             \* the bag of coroutines suspended inside FollowAutomation
    last_result,      \* what the call that finished last handed to its caller
    calls,            \* number of calls made to the public operations so far
    users,            \* GrowthEngine.users: user id -> UserProfile
    user_order,       \* the insertion order of the keys of GrowthEngine.users
    members,          \* community id -> MicroCommunity.members
    collaborations,   \* GrowthEngine.collaborations, by creation order
    leaderboard_data, \* GrowthEngine.leaderboard_data: platform key -> snapshot
    metrics_files,    \* the metrics files: metric type -> list of records
    awards_granted,   \* the bag of (user, badge) for which award_badge returned True
    ledger_result,    \* what the ledger call that finished last returned
    config,           \* UltimateFollowBuilder.config (the BuilderConfig)
    active_campaigns, \* UltimateFollowBuilder.active_campaigns: strategy id -> strategy
    account_health,   \* UltimateFollowBuilder.account_health: platform -> record
    stats,            \* UltimateFollowBuilder.stats (the BuilderStats)
    eng_campaigns,    \* EngagementAutomation.campaigns: campaign id -> campaign
    eng_actions,      \* EngagementAutomation.actions: the engagement log
    builder_result,   \* what the builder call that finished last handed to its caller
    running,          \* GrowthEngineScheduler.running
    registered,       \* how many times every job is registered with the schedule
    job_tasks,        \* the bag of job tasks created by the scheduler and not yet run
    metrics_history,  \* GrowthEngineScheduler.metrics_history
    templates,        \* GrowthEngine.templates: template id -> usage_count
    job_runs,         \* job type -> number of times its handler ran
    job_faults,       \* job type -> number of exceptions raised inside its handler
    job_errors,       \* job type -> number of errors its handler logged
    escaped,          \* number of exceptions that left a handler
    sched_result      \* what the run_manual_job call that finished last returned

follow_vars == <<now, heap, campaigns, actions, target_accounts, executor_calls, task,
                 last_result>>

ledger_vars == <<users, user_order, members, collaborations, leaderboard_data,
                 metrics_files, awards_granted, ledger_result>>

builder_vars == <<config, active_campaigns, account_health, stats, eng_campaigns,
                  eng_actions, builder_result>>

sched_vars == <<running, registered, job_tasks, metrics_history, templates, job_runs,
                job_faults, job_errors, escaped, sched_result>>

vars == <<follow_vars, ledger_vars, calls, builder_vars, sched_vars>>

----------------------------------------------------------------------------
\* Bounds of the model

MaxTime == 3          \* the clock stops at this tick
HourTicks == 2        \* ticks in timedelta(hours=1)
DelayTicks == 1       \* least number of ticks slept by _human_delay
QuotaScale == 30      \* hourly budgets are divided by this (rounded up)
MaxCalls == 3         \* calls made to the operations of FollowAutomation
MaxOps == 4           \* calls made to the operations that add to the ledger
MaxUsers == 11        \* users of a population drawn for update_leaderboard

Min(a, b) == IF a < b THEN a ELSE b

----------------------------------------------------------------------------
\* Enumerations

PlatformType == {"instagram", "twitter", "tiktok", "linkedin", "youtube"}

ActionType == {"follow", "unfollow", "like", "comment", "dm", "story_view"}

\* Inputs the model draws from
PlatformInputs == {"twitter"}

ActionTypeInputs == {"follow", "story_view"}

DailyLimitInputs == {2}

----------------------------------------------------------------------------
\* Quota Manager

rate_limits ==
    [ instagram |-> [ follows_per_hour |-> 20, unfollows_per_hour |-> 20,
                      likes_per_hour |-> 50, comments_per_hour |-> 10,
                      dms_per_hour |-> 5, story_views_per_hour |-> 100 ],
      twitter   |-> [ follows_per_hour |-> 30, unfollows_per_hour |-> 30,
                      likes_per_hour |-> 100, comments_per_hour |-> 20,
                      dms_per_hour |-> 10, retweets_per_hour |-> 20 ],
      tiktok    |-> [ follows_per_hour |-> 25, unfollows_per_hour |-> 25,
                      likes_per_hour |-> 80, comments_per_hour |-> 15,
                      dms_per_hour |-> 8, video_views_per_hour |-> 200 ] ]

\* f"{action_type.value}s_per_hour"
ActionKey(atype) == atype \o "s_per_hour"

HasLimit(platform, atype) ==
    /\ platform \in DOMAIN rate_limits
    /\ ActionKey(atype) \in DOMAIN rate_limits[platform]

\* the budget of a bucket, in model actions
Limit(platform, atype) ==
    (rate_limits[platform][ActionKey(atype)] + QuotaScale - 1) \div QuotaScale

\* the recorded actions of a bucket whose timestamp is later than t - 1 hour
RecentActions(acts, platform, atype, t) ==
    { i \in DOMAIN acts : /\ acts[i].platform = platform
                          /\ acts[i].action_type = atype
                          /\ acts[i].timestamp > t - HourTicks }

_check_rate_limit(acts, platform, atype, t) ==
    IF ~HasLimit(platform, atype)
    THEN TRUE
    ELSE Cardinality(RecentActions(acts, platform, atype, t)) < Limit(platform, atype)

----------------------------------------------------------------------------
\* Target Scorer

DefaultCriteria ==
    [ min_followers |-> 1000, max_followers |-> 100000,
      min_engagement_rate |-> 100, max_inactive_days |-> 7 ]

\* engagement_rate is in 1/10000 (0.02 is 200); hours_inactive is
\* now - last_activity in whole hours
Account(u, f, r, h, v, p) ==
    [ username |-> u, follower_count |-> f, engagement_rate |-> r,
      hours_inactive |-> h, is_verified |-> v, is_private |-> p ]

Ann == Account("ann", 5000, 300, 2, FALSE, FALSE)
Bob == Account("bob", 60000, 500, 30, TRUE, FALSE)
Cat == Account("cat", 2000, 200, 40, FALSE, FALSE)
Dan == Account("dan", 3000, 400, 5, FALSE, TRUE)

\* accounts at the edges of the filter: inactive for 7 days and 2 hours, for
\* 8 days and 8 hours, for 7 days to the hour, with too few followers, and
\* with too low an engagement rate
Eve == Account("eve", 5000, 300, 170, FALSE, FALSE)
Fay == Account("fay", 5000, 300, 200, FALSE, FALSE)
Ivy == Account("ivy", 5000, 300, 168, FALSE, FALSE)
Gus == Account("gus", 500, 300, 2, FALSE, FALSE)
Hal == Account("hal", 5000, 50, 2, FALSE, FALSE)

ScorerAccounts == {Ann, Dan, Eve, Fay, Ivy, Gus, Hal}

\* the discovery passes: no account, one account, or the account just past
\* the window followed by another one
ScorerBatches ==
    {<<>>} \cup { <<a>> : a \in ScorerAccounts }
           \cup { <<Eve, a>> : a \in ScorerAccounts \ {Eve} }

\* what the discovery source may return in one pass
CandidateBatches == { <<>>, <<Dan, Ann>>, <<Cat, Ann, Bob>> }

_should_target_account(target, criteria) ==
    /\ ~target.is_private
    /\ criteria.min_followers <= target.follower_count
    /\ target.follower_count <= criteria.max_followers
    /\ ~(target.engagement_rate < criteria.min_engagement_rate)
    /\ ~((target.hours_inactive \div 24) > criteria.max_inactive_days)

\* engagement_rate * 100, times 1.2, 1.1 and 0.8: kept exact as an integer
\* (the score times 100000)
_calculate_engagement_score(target) ==
    target.engagement_rate
      * (IF target.is_verified THEN 12 ELSE 10)
      * (IF target.hours_inactive < 24 THEN 11 ELSE 10)
      * (IF target.follower_count > 50000 THEN 8 ELSE 10)

\* list.sort(key=..., reverse=True) on records [key, val]: descending and
\* stable (equal keys keep their order)
RECURSIVE InsertDesc(_, _)
InsertDesc(s, x) ==
    IF s = <<>> THEN <<x>>
    ELSE IF Head(s).key >= x.key
         THEN <<Head(s)>> \o InsertDesc(Tail(s), x)
         ELSE <<x>> \o s

RECURSIVE SortDescFrom(_, _)
SortDescFrom(done, rest) ==
    IF rest = <<>> THEN done
    ELSE SortDescFrom(InsertDesc(done, Head(rest)), Tail(rest))

\* the list left in the order of discovery
SortAsGiven(s) == s

SortDesc(s) == SortDescFrom(<<>>, s)

\* the usernames of the accounts that pass the filter, best score first
_filter_and_score_targets(targets, criteria) ==
    LET passed == SelectSeq(targets, LAMBDA a : _should_target_account(a, criteria))
        keyed  == [ i \in DOMAIN passed |->
                      [ key |-> _calculate_engagement_score(passed[i]),
                        val |-> passed[i].username ] ]
        sorted == SortDesc(keyed)
    IN  [ i \in DOMAIN sorted |-> sorted[i].val ]

----------------------------------------------------------------------------
\* Campaign Manager and Action Executor

\* f"campaign-{platform.value}-{int(time.time())}"
CampaignId(platform, t) == <<platform, t>>

NoId == <<"none", 0>>

UnknownId == <<"twitter", MaxTime + 1>>

NoAction ==
    [ campaign_id |-> NoId, action_type |-> "none", target_username |-> "none",
      platform |-> "none", timestamp |-> 0, success |-> FALSE, error_message |-> "" ]

\* the frame of a coroutine: op is the call ("exec" for
\* execute_follow_action, "run" for run_campaign), camp the campaign object
\* and pending the FollowAction of the action in flight, wake the end of its
\* sleep, slice and idx the loop of run_campaign, slots the positions of the
\* log the call appended at
NewTask ==
    [ op |-> "none", cid |-> NoId, camp |-> 0, pending |-> NoAction,
      wake |-> 0, slice |-> <<>>, idx |-> 0, found |-> 0, limit |-> 0,
      executed |-> 0, successful |-> 0, slots |-> <<>> ]

\* what a finished call handed to its caller.  status is "action" (an
\* execute_follow_action that returned its FollowAction), "run" (a
\* run_campaign that returned its result dict) or the exception raised;
\* found and limit are len(targets) and daily_follow_limit, planned is the
\* length of targets[:daily_follow_limit], visited the number of targets
\* whose execute_follow_action was called, executed and successful the
\* counters of the result dict, slots the positions of the log the call
\* appended at; broke tells that the loop took the break, denied that the
\* last quota check of the call failed
NoResult ==
    [ op |-> "none", status |-> "none", found |-> 0, limit |-> 0, planned |-> 0,
      visited |-> 0, executed |-> 0, successful |-> 0, slots |-> <<>>,
      broke |-> FALSE, denied |-> FALSE ]

Result(tr, status, broke, denied) ==
    [ op |-> tr.op, status |-> status, found |-> tr.found, limit |-> tr.limit,
      planned |-> Len(tr.slice), visited |-> Min(tr.idx, Len(tr.slice)),
      executed |-> tr.executed, successful |-> tr.successful, slots |-> tr.slots,
      broke |-> broke, denied |-> denied ]

\* ExecBegin with a denial recorded in the log as a failed action
ExecBeginRecordsDenial(cid, target, atype, acts) ==
    IF cid \notin DOMAIN campaigns
    THEN [ status |-> "ValueError", camp |-> 0, action |-> NoAction, actions |-> acts ]
    ELSE LET c == heap[campaigns[cid]]
             a == [ campaign_id |-> cid, action_type |-> atype,
                    target_username |-> target, platform |-> c.platform,
                    timestamp |-> now, success |-> FALSE, error_message |-> "" ]
         IN  IF ~_check_rate_limit(acts, c.platform, atype, now)
             THEN [ status |-> "RateLimit", camp |-> 0, action |-> NoAction,
                    actions |-> Append(acts, [ a EXCEPT !.error_message = "error" ]) ]
             ELSE [ status |-> "sleep", camp |-> campaigns[cid], action |-> a,
                    actions |-> acts ]

\* the first, uninterrupted part of execute_follow_action: the registry
\* lookup, the quota check and the construction of the FollowAction;
\* actions is the log as this part leaves it
ExecBegin(cid, target, atype, acts) ==
    IF cid \notin DOMAIN campaigns
    THEN [ status |-> "ValueError", camp |-> 0, action |-> NoAction, actions |-> acts ]
    ELSE LET c == heap[campaigns[cid]] IN
         IF ~_check_rate_limit(acts, c.platform, atype, now)
         THEN [ status |-> "RateLimit", camp |-> 0, action |-> NoAction, actions |-> acts ]
         ELSE [ status |-> "sleep", camp |-> campaigns[cid],
                action |-> [ campaign_id |-> cid, action_type |-> atype,
                             target_username |-> target, platform |-> c.platform,
                             timestamp |-> now, success |-> FALSE,
                             error_message |-> "" ],
                actions |-> acts ]

\* the counter a successful action of a type increments
CounterOf(atype) ==
    IF atype = "follow" THEN "total_follows"
    ELSE IF atype = "unfollow" THEN "total_unfollows"
    ELSE IF atype \in {"like", "comment", "dm"} THEN "total_engagements"
    ELSE "none"

\* ExecEnd with only the successful actions stored
ExecEndDropsFailure(pending, camp, outcome, acts, hp) ==
    LET success == (outcome = "ok")
        action  == [ pending EXCEPT
                       !.success = success,
                       !.error_message = IF outcome = "ok" THEN ""
                                         ELSE IF outcome = "fail" THEN "Action failed"
                                         ELSE "error" ]
        ctr     == CounterOf(pending.action_type)
    IN  [ action  |-> action,
          actions |-> IF success THEN Append(acts, action) ELSE acts,
          heap    |-> IF success /\ ctr # "none"
                      THEN [ hp EXCEPT ![camp][ctr] = @ + 1 ]
                      ELSE hp ]

\* ExecEnd that stores the action in the last place of the log
ExecEndOverwritesLast(pending, camp, outcome, acts, hp) ==
    LET success == (outcome = "ok")
        action  == [ pending EXCEPT
                       !.success = success,
                       !.error_message = IF outcome = "ok" THEN ""
                                         ELSE IF outcome = "fail" THEN "Action failed"
                                         ELSE "error" ]
        ctr     == CounterOf(pending.action_type)
    IN  [ action  |-> action,
          actions |-> IF acts = <<>> THEN <<action>>
                      ELSE [ acts EXCEPT ![Len(acts)] = action ],
          heap    |-> IF success /\ ctr # "none"
                      THEN [ hp EXCEPT ![camp][ctr] = @ + 1 ]
                      ELSE hp ]

\* the part of execute_follow_action after the sleep: the executor call,
\* the counter update on the campaign object fetched before the sleep, and
\* the append.  outcome: "ok" (True), "fail" (not True), "raise"
ExecEnd(pending, camp, outcome, acts, hp) ==
    LET success == (outcome = "ok")
        action  == [ pending EXCEPT
                       !.success = success,
                       !.error_message = IF outcome = "ok" THEN ""
                                         ELSE IF outcome = "fail" THEN "Action failed"
                                         ELSE "error" ]
        ctr     == CounterOf(pending.action_type)
    IN  [ action  |-> action,
          actions |-> Append(acts, action),
          heap    |-> IF success /\ ctr # "none"
                      THEN [ hp EXCEPT ![camp][ctr] = @ + 1 ]
                      ELSE hp ]

Outcomes == {"ok", "fail", "raise"}

One(tr) == SetToBag({tr})

\* FollowAutomation.__init__
FollowInit ==
    /\ now = 0
    /\ heap = <<>>
    /\ campaigns = << >>
    /\ actions = <<>>
    /\ target_accounts = {}
    /\ executor_calls = 0
    /\ task = EmptyBag
    /\ last_result = NoResult

\* the clock advances
Tick ==
    /\ now < MaxTime
    /\ now' = now + 1
    /\ UNCHANGED <<heap, campaigns, actions, target_accounts, executor_calls, task,
                   last_result, calls, ledger_vars, builder_vars, sched_vars>>

create_follow_campaign(platform, limit) ==
    /\ calls < MaxCalls
    /\ calls' = calls + 1
    /\ LET campaign_id == CampaignId(platform, now)
           campaign == [ id |-> campaign_id, platform |-> platform,
                         target_criteria |-> DefaultCriteria,
                         daily_follow_limit |-> limit, is_active |-> TRUE,
                         total_follows |-> 0, total_unfollows |-> 0,
                         total_engagements |-> 0 ]
       IN  /\ heap' = Append(heap, campaign)
           /\ campaigns' = (campaign_id :> (Len(heap) + 1)) @@ campaigns
    /\ UNCHANGED <<now, actions, target_accounts, executor_calls, task, last_result,
                   ledger_vars, builder_vars, sched_vars>>

\* a caller invokes execute_follow_action; it runs up to the sleep or raises
ExecuteStart(cid, target, atype) ==
    /\ calls < MaxCalls
    /\ calls' = calls + 1
    /\ LET r  == ExecBegin(cid, target, atype, actions)
           tr == [ NewTask EXCEPT !.op = "exec", !.cid = cid ]
       IN  /\ actions' = r.actions
           /\ IF r.status = "sleep"
              THEN /\ task' = task (+) One([ tr EXCEPT !.camp = r.camp,
                                                       !.pending = r.action,
                                                       !.wake = now + DelayTicks ])
                   /\ UNCHANGED last_result
              ELSE /\ last_result' = Result(tr, r.status, FALSE, r.status = "RateLimit")
                   /\ UNCHANGED task
    /\ UNCHANGED <<now, heap, campaigns, target_accounts, executor_calls, ledger_vars, builder_vars, sched_vars>>

\* the sleep of an execute_follow_action call is over
ExecuteFinish(t, outcome) ==
    /\ BagIn(t, task)
    /\ t.op = "exec"
    /\ now >= t.wake
    /\ LET fin == ExecEnd(t.pending, t.camp, outcome, actions, heap)
           tr  == [ t EXCEPT
                      !.executed = 1,
                      !.successful = IF fin.action.success THEN 1 ELSE 0,
                      !.slots = <<Len(fin.actions)>> ]
       IN  /\ actions' = fin.actions
           /\ heap' = fin.heap
           /\ last_result' = Result(tr, "action", FALSE, FALSE)
    /\ task' = task (-) One(t)
    /\ executor_calls' = executor_calls + 1
    /\ UNCHANGED <<now, campaigns, target_accounts, calls, ledger_vars, builder_vars, sched_vars>>

\* the slice cut one target short
RunSliceShort(targets, limit) == SubSeq(targets, 1, Min(limit - 1, Len(targets)))

\* targets[:campaign.daily_follow_limit]
RunSlice(targets, limit) == SubSeq(targets, 1, Min(limit, Len(targets)))

\* the loop of run_campaign from the head of an iteration, on the log acts:
\* the run returns, or starts the action for slice[idx] and sleeps, or takes
\* the exception of the action and breaks (and returns)
RunLoop(tr, acts) ==
    IF tr.idx > Len(tr.slice)
    THEN [ task |-> tr, done |-> TRUE, actions |-> acts,
           result |-> Result(tr, "run", FALSE, FALSE) ]
    ELSE LET r == ExecBegin(tr.cid, tr.slice[tr.idx], "follow", acts) IN
         IF r.status = "sleep"
         THEN [ task |-> [ tr EXCEPT !.camp = r.camp,
                                     !.pending = r.action,
                                     !.wake = now + DelayTicks ],
                done |-> FALSE, actions |-> r.actions, result |-> NoResult ]
         ELSE [ task |-> tr, done |-> TRUE, actions |-> r.actions,
                result |-> Result(tr, "run", TRUE, r.status = "RateLimit") ]

\* a caller invokes run_campaign: discovery, scoring, and the loop up to
\* its first sleep
RunStart(cid, batch) ==
    /\ calls < MaxCalls
    /\ calls' = calls + 1
    /\ IF cid \notin DOMAIN campaigns
       THEN /\ last_result' = Result([ NewTask EXCEPT !.op = "run", !.cid = cid ],
                                     "ValueError", FALSE, FALSE)
            /\ UNCHANGED <<task, actions>>
       ELSE LET campaign == heap[campaigns[cid]]
                targets  == _filter_and_score_targets(batch, campaign.target_criteria)
                slice    == RunSlice(targets, campaign.daily_follow_limit)
                loop     == RunLoop([ NewTask EXCEPT !.op = "run", !.cid = cid,
                                        !.slice = slice, !.idx = 1,
                                        !.found = Len(targets),
                                        !.limit = campaign.daily_follow_limit ],
                                    actions)
            IN  /\ task' = IF loop.done THEN task ELSE task (+) One(loop.task)
                /\ actions' = loop.actions
                /\ last_result' = IF loop.done THEN loop.result ELSE last_result
    /\ UNCHANGED <<now, heap, campaigns, target_accounts, executor_calls, ledger_vars, builder_vars, sched_vars>>

\* the sleep of the action in flight of a run is over: the action is
\* executed and recorded, and the loop goes on up to its next sleep
RunStep(t, outcome) ==
    /\ BagIn(t, task)
    /\ t.op = "run"
    /\ now >= t.wake
    /\ LET fin  == ExecEnd(t.pending, t.camp, outcome, actions, heap)
           tr   == [ t EXCEPT
                       !.executed = @ + 1,
                       !.successful = IF fin.action.success THEN @ + 1 ELSE @,
                       !.slots = Append(@, Len(fin.actions)),
                       !.idx = @ + 1 ]
           loop == RunLoop(tr, fin.actions)
       IN  /\ actions' = loop.actions
           /\ heap' = fin.heap
           /\ target_accounts' = target_accounts \cup {t.pending.target_username}
           /\ task' = IF loop.done THEN task (-) One(t)
                      ELSE (task (-) One(t)) (+) One(loop.task)
           /\ last_result' = IF loop.done THEN loop.result ELSE last_result
    /\ executor_calls' = executor_calls + 1
    /\ UNCHANGED <<now, campaigns, calls, ledger_vars, builder_vars, sched_vars>>

CampaignIdInputs == DOMAIN campaigns \cup {UnknownId}

TargetInputs == {"ann"}

FollowNext ==
    \/ Tick
    \/ \E p \in PlatformInputs, l \in DailyLimitInputs : create_follow_campaign(p, l)
    \/ \E cid \in CampaignIdInputs, u \in TargetInputs, a \in ActionTypeInputs :
          ExecuteStart(cid, u, a)
    \/ \E t \in BagToSet(task), o \in Outcomes : ExecuteFinish(t, o)
    \/ \E cid \in CampaignIdInputs, b \in CandidateBatches : RunStart(cid, b)
    \/ \E t \in BagToSet(task), o \in Outcomes : RunStep(t, o)

----------------------------------------------------------------------------
\* Gamification Ledger

BadgeType ==
    {"first_comment", "weekly_top", "collab_master", "engagement_king", "content_creator"}

\* the number of entries update_leaderboard keeps
TopN == 10

\* Inputs the model draws from
UserIdInputs == {1, 2}

BadgeInputs == {"first_comment", "weekly_top"}

CommunityInputs == {"niche-finder-001", "no-such-community"}

\* the argument of update_leaderboard; "default" is a call without one
PlatformArgInputs == {"default", "instagram"}

ActivityFieldInputs == {"weekly_engagement", "total_posts", "collaboration_count"}

ActivityInputs == {5}

\* the activity of the users of a drawn population
ProfileInputs ==
    { [ xp_points |-> 3, weekly_engagement |-> 1, collaboration_count |-> 0 ],
      [ xp_points |-> 0, weekly_engagement |-> 0, collaboration_count |-> 1 ] }

Contains(s, x) == \E i \in DOMAIN s : s[i] = x

UserProfile(user_id, username) ==
    [ user_id |-> user_id, username |-> username, xp_points |-> 0, level |-> 1,
      badges |-> <<>>, communities |-> <<>>, weekly_engagement |-> 0,
      total_posts |-> 0, collaboration_count |-> 0 ]

Username(user_id) == <<"user", user_id>>

xp_rewards ==
    [ first_comment |-> 5, weekly_top |-> 50, collab_master |-> 25,
      engagement_king |-> 30, content_creator |-> 20 ]

\* xp_rewards.get(badge_type, 10)
Reward(badge_type) ==
    IF badge_type \in DOMAIN xp_rewards THEN xp_rewards[badge_type] ELSE 10

NoLedgerResult == [ op |-> "none", arg |-> "", ok |-> FALSE, value |-> <<>> ]

LedgerResult(op, arg, ok, value) == [ op |-> op, arg |-> arg, ok |-> ok, value |-> value ]

\* the profile is stored whether or not the id has one
CreateUserProfile(us, user_id) == (user_id :> UserProfile(user_id, Username(user_id))) @@ us

\* an award_badge that does not look at the badges the user holds
AwardBadgeUnchecked(us, user_id, badge_type) ==
    IF user_id \notin DOMAIN us
    THEN [ ok |-> FALSE, users |-> us ]
    ELSE [ ok |-> TRUE,
           users |-> [ us EXCEPT ![user_id].badges = Append(@, badge_type),
                                 ![user_id].xp_points = @ + Reward(badge_type) ] ]

\* award_badge on the profiles us: what it returns and the profiles it leaves
AwardBadge(us, user_id, badge_type) ==
    IF user_id \notin DOMAIN us
    THEN [ ok |-> FALSE, users |-> us ]
    ELSE IF ~Contains(us[user_id].badges, badge_type)
         THEN [ ok |-> TRUE,
                users |-> [ us EXCEPT ![user_id].badges = Append(@, badge_type),
                                      ![user_id].xp_points = @ + Reward(badge_type) ] ]
         ELSE [ ok |-> FALSE, users |-> us ]

Granted(r, user_id, badge_type) ==
    IF r.ok THEN One(<<user_id, badge_type>>) ELSE EmptyBag

Score(user) ==
    user.xp_points + (user.weekly_engagement * 2) + (user.collaboration_count * 10)

Entry(user_id, user) ==
    [ user_id |-> user_id, username |-> user.username, score |-> Score(user),
      xp_points |-> user.xp_points, weekly_engagement |-> user.weekly_engagement,
      collaboration_count |-> user.collaboration_count ]

\* the default of the platform parameter
PlatformKey(arg) == IF arg = "default" THEN "all" ELSE arg

\* UpdateLeaderboard without the sort
UpdateLeaderboardUnsorted(us, order) ==
    [ i \in 1..Min(TopN, Len(order)) |-> Entry(order[i], us[order[i]]) ]

\* user_scores[:10] of update_leaderboard on the profiles us, iterated in
\* the order of their insertion
UpdateLeaderboard(us, order) ==
    LET keyed  == [ i \in DOMAIN order |->
                      [ key |-> Score(us[order[i]]),
                        val |-> Entry(order[i], us[order[i]]) ] ]
        sorted == SortDesc(keyed)
    IN  [ i \in 1..Min(TopN, Len(sorted)) |-> sorted[i].val ]

\* GrowthEngine.__init__
LedgerInit ==
    /\ users = << >>
    /\ user_order = <<>>
    /\ members = [ c \in {"niche-finder-001", "problem-solver-001"} |-> <<>> ]
    /\ collaborations = <<>>
    /\ leaderboard_data = << >>
    /\ metrics_files = [ leaderboard |-> <<>>, badge_awards |-> <<>> ]
    /\ awards_granted = EmptyBag
    /\ ledger_result = NoLedgerResult

create_user_profile(user_id) ==
    /\ calls < MaxOps
    /\ calls' = calls + 1
    /\ users' = CreateUserProfile(users, user_id)
    /\ user_order' = IF user_id \in DOMAIN users THEN user_order
                     ELSE Append(user_order, user_id)
    /\ ledger_result' = LedgerResult("create_user_profile", "", TRUE, <<>>)
    /\ UNCHANGED <<members, collaborations, leaderboard_data, metrics_files,
                   awards_granted, follow_vars, builder_vars, sched_vars>>

join_community(user_id, community_id) ==
    /\ calls < MaxOps
    /\ calls' = calls + 1
    /\ IF community_id \notin DOMAIN members
       THEN /\ ledger_result' = LedgerResult("join_community", "", FALSE, <<>>)
            /\ UNCHANGED <<members, users>>
       ELSE IF ~Contains(members[community_id], user_id)
            THEN /\ members' = [ members EXCEPT ![community_id] = Append(@, user_id) ]
                 /\ users' = IF user_id \in DOMAIN users
                             THEN [ users EXCEPT
                                      ![user_id].xp_points = @ + 10,
                                      ![user_id].communities = Append(@, community_id) ]
                             ELSE users
                 /\ ledger_result' = LedgerResult("join_community", "", TRUE, <<>>)
            ELSE /\ ledger_result' = LedgerResult("join_community", "", FALSE, <<>>)
                 /\ UNCHANGED <<members, users>>
    /\ UNCHANGED <<user_order, collaborations, leaderboard_data, metrics_files,
                   awards_granted, follow_vars, builder_vars, sched_vars>>

award_badge(user_id, badge_type) ==
    /\ calls < MaxOps
    /\ calls' = calls + 1
    /\ LET r == AwardBadge(users, user_id, badge_type)
       IN  /\ users' = r.users
           /\ awards_granted' = awards_granted (+) Granted(r, user_id, badge_type)
           /\ ledger_result' = LedgerResult("award_badge", badge_type, r.ok, <<user_id>>)
    /\ UNCHANGED <<user_order, members, collaborations, leaderboard_data,
                   metrics_files, follow_vars, builder_vars, sched_vars>>

create_collaboration(user1_id, user2_id) ==
    /\ calls < MaxOps
    /\ calls' = calls + 1
    /\ collaborations' = Append(collaborations,
                                [ user1_id |-> user1_id, user2_id |-> user2_id,
                                  status |-> "pending" ])
    /\ ledger_result' = LedgerResult("create_collaboration", "", TRUE, <<>>)
    /\ UNCHANGED <<users, user_order, members, leaderboard_data, metrics_files,
                   awards_granted, follow_vars, builder_vars, sched_vars>>

\* (the call adds nothing to the ledger but a snapshot under its key: it is
\* not counted among the calls that MaxOps bounds)
update_leaderboard(arg) ==
    /\ LET top == UpdateLeaderboard(users, user_order)
       IN  /\ leaderboard_data' = (PlatformKey(arg) :> top) @@ leaderboard_data
           /\ ledger_result' = LedgerResult("update_leaderboard", arg, TRUE, top)
    /\ UNCHANGED <<users, user_order, members, collaborations, metrics_files,
                   awards_granted, follow_vars, calls, builder_vars, sched_vars>>

\* a caller that holds a profile writes one of its activity fields
record_activity(user_id, fld, value) ==
    /\ calls < MaxOps
    /\ calls' = calls + 1
    /\ user_id \in DOMAIN users
    /\ users' = [ users EXCEPT ![user_id][fld] = value ]
    /\ ledger_result' = LedgerResult("record_activity", fld, TRUE, <<>>)
    /\ UNCHANGED <<user_order, members, collaborations, leaderboard_data,
                   metrics_files, awards_granted, follow_vars, builder_vars, sched_vars>>

\* the job types run_manual_job knows
JobTypes ==
    { "leaderboard", "collab_suggestions", "metrics", "content_scheduling",
      "community_analysis", "badge_awards" }

\* a handler without its except clause: the exception leaves the handler
HandlerLetsThrough(job, raised) ==
    [ job_errors |-> job_errors,
      escaped |-> escaped + (IF raised THEN 1 ELSE 0) ]

\* try: ... except Exception as e: logger.error(...) of a job handler
HandlerCatch(job, raised) ==
    [ job_errors |-> IF raised THEN [ job_errors EXCEPT ![job] = @ + 1 ] ELSE job_errors,
      escaped |-> escaped ]

\* the end of a run of the handler of a job, in which an exception was
\* raised or not
JobEnd(job, raised) ==
    /\ job_runs' = [ job_runs EXCEPT ![job] = @ + 1 ]
    /\ job_faults' = IF raised THEN [ job_faults EXCEPT ![job] = @ + 1 ] ELSE job_faults
    /\ job_errors' = HandlerCatch(job, raised).job_errors
    /\ escaped' = HandlerCatch(job, raised).escaped

\* _save_metrics: the record is appended to the file of its metric type,
\* unless the file cannot be read or written (io_ok false), which the job's
\* handler catches
SaveMetrics(files, metric_type, data, io_ok) ==
    IF io_ok
    THEN (metric_type :> Append(IF metric_type \in DOMAIN files THEN files[metric_type]
                                ELSE <<>>, data)) @@ files
    ELSE files

\* a job that leaves weekly_engagement as it is
KeepWeeklyEngagement(us) == us

\* for user in self.growth_engine.users.values(): user.weekly_engagement = 0
ResetWeeklyEngagement(us) ==
    [ u \in DOMAIN us |-> [ us[u] EXCEPT !.weekly_engagement = 0 ] ]

_async_weekly_leaderboard_job(io_ok) ==
    /\ calls < MaxOps
    /\ calls' = calls + 1
    /\ LET leaderboard == UpdateLeaderboard(users, user_order)
           r == IF leaderboard # <<>>
                THEN AwardBadge(users, leaderboard[1].user_id, "weekly_top")
                ELSE [ ok |-> FALSE, users |-> users ]
       IN  /\ leaderboard_data' = ("all" :> leaderboard) @@ leaderboard_data
           /\ users' = ResetWeeklyEngagement(r.users)
           /\ awards_granted' =
                 awards_granted (+)
                 (IF leaderboard # <<>>
                  THEN Granted(r, leaderboard[1].user_id, "weekly_top")
                  ELSE EmptyBag)
           /\ metrics_files' = SaveMetrics(metrics_files, "leaderboard",
                                           [ type |-> "weekly",
                                             leaderboard |-> leaderboard ], io_ok)
           /\ ledger_result' = LedgerResult("leaderboard_job", "", io_ok, leaderboard)
    /\ JobEnd("leaderboard", ~io_ok)
    /\ UNCHANGED <<user_order, members, collaborations, follow_vars, builder_vars,
                   running, registered, metrics_history, templates>>

\* a sweep that does not look at the badges the user holds
DueBadgesByCriterion(user) ==
    (IF user.weekly_engagement > 0 THEN <<"first_comment">> ELSE <<>>)
    \o (IF user.total_posts >= 5 THEN <<"content_creator">> ELSE <<>>)
    \o (IF user.collaboration_count >= 3 THEN <<"collab_master">> ELSE <<>>)

\* the badges the daily job awards to one user, in the order of its checks
DueBadges(user) ==
    (IF user.weekly_engagement > 0 /\ ~Contains(user.badges, "first_comment")
     THEN <<"first_comment">> ELSE <<>>)
    \o (IF user.total_posts >= 5 /\ ~Contains(user.badges, "content_creator")
        THEN <<"content_creator">> ELSE <<>>)
    \o (IF user.collaboration_count >= 3 /\ ~Contains(user.badges, "collab_master")
        THEN <<"collab_master">> ELSE <<>>)

RECURSIVE AwardAll(_, _, _)
AwardAll(us, user_id, badges) ==
    IF badges = <<>> THEN us
    ELSE AwardAll(AwardBadge(us, user_id, Head(badges)).users, user_id, Tail(badges))

\* the sweep of the daily job over the users from position i on: the profiles
\* it leaves and the awards it gave
RECURSIVE Sweep(_, _, _, _)
Sweep(us, order, i, given) ==
    IF i > Len(order) THEN [ users |-> us, awards_given |-> given ]
    ELSE LET due == DueBadges(us[order[i]])
         IN  Sweep(AwardAll(us, order[i], due), order, i + 1,
                   given \o [ k \in DOMAIN due |-> <<order[i], due[k]>> ])

RECURSIVE SeqToBag(_)
SeqToBag(s) == IF s = <<>> THEN EmptyBag ELSE One(Head(s)) (+) SeqToBag(Tail(s))

_async_daily_badge_awards_job(io_ok) ==
    /\ calls < MaxOps
    /\ calls' = calls + 1
    /\ LET sw == Sweep(users, user_order, 1, <<>>)
       IN  /\ users' = sw.users
           /\ awards_granted' = awards_granted (+) SeqToBag(sw.awards_given)
           /\ metrics_files' = SaveMetrics(metrics_files, "badge_awards",
                                           [ awards_given |-> sw.awards_given,
                                             total_awards |-> Len(sw.awards_given) ],
                                           io_ok)
           /\ ledger_result' = LedgerResult("badge_awards_job", "", io_ok, sw.awards_given)
    /\ JobEnd("badge_awards", ~io_ok)
    /\ UNCHANGED <<user_order, members, collaborations, leaderboard_data, follow_vars,
                   builder_vars, running, registered, metrics_history, templates>>

LedgerNext ==
    \/ \E u \in UserIdInputs : create_user_profile(u)
    \/ \E u \in UserIdInputs, c \in CommunityInputs : join_community(u, c)
    \/ \E u \in UserIdInputs, b \in BadgeInputs : award_badge(u, b)
    \/ create_collaboration(1, 2)
    \/ \E a \in PlatformArgInputs : update_leaderboard(a)
    \/ \E u \in UserIdInputs, f \in ActivityFieldInputs, v \in ActivityInputs :
          record_activity(u, f, v)
    \/ \E io_ok \in BOOLEAN :
          _async_weekly_leaderboard_job(io_ok) /\ UNCHANGED <<job_tasks, sched_result>>
    \/ \E io_ok \in BOOLEAN :
          _async_daily_badge_awards_job(io_ok) /\ UNCHANGED <<job_tasks, sched_result>>

\* a population of n users, inserted in the order of their ids
Population(n, profile) ==
    [ u \in 1..n |->
        [ UserProfile(u, Username(u)) EXCEPT
            !.xp_points = profile[u].xp_points,
            !.weekly_engagement = profile[u].weekly_engagement,
            !.collaboration_count = profile[u].collaboration_count ] ]

LeaderNext == \E a \in PlatformArgInputs : update_leaderboard(a)

----------------------------------------------------------------------------
\* Strategy Orchestrator (UltimateFollowBuilder)

BuilderMode == {"aggressive", "moderate", "conservative", "safe"}

mode_settings ==
    [ aggressive   |-> [ daily_follow_limit |-> 100, daily_unfollow_limit |-> 80,
                         daily_engagement_limit |-> 200 ],
      moderate     |-> [ daily_follow_limit |-> 50, daily_unfollow_limit |-> 40,
                         daily_engagement_limit |-> 100 ],
      conservative |-> [ daily_follow_limit |-> 25, daily_unfollow_limit |-> 20,
                         daily_engagement_limit |-> 50 ],
      safe         |-> [ daily_follow_limit |-> 10, daily_unfollow_limit |-> 8,
                         daily_engagement_limit |-> 25 ] ]

\* Inputs the model draws from: the platform list and the mode of the
\* BuilderConfig, the niche of a strategy
PlatformListInputs == { <<"twitter">>, <<"instagram", "twitter">>, <<"twitter", "myspace">> }

ModeInputs == {"moderate", "safe"}

NicheInputs == {"fitness", "travel"}

\* the ids uuid4 hands to create_micro_community, in the order it hands them
CommunityIdPool ==
    << "niche_finder-a1", "niche_finder-b2", "niche_finder-c3", "niche_finder-d4",
       "niche_finder-e5", "niche_finder-f6" >>

\* the config as _initialize_mode_settings leaves it
BuilderConfig(mode, platforms) ==
    [ mode |-> mode, platforms |-> platforms,
      daily_follow_limit |-> mode_settings[mode].daily_follow_limit,
      daily_unfollow_limit |-> mode_settings[mode].daily_unfollow_limit,
      daily_engagement_limit |-> mode_settings[mode].daily_engagement_limit ]

\* the limits a caller may supply in the BuilderConfig it constructs
SuppliedLimitInputs ==
    { [ daily_follow_limit |-> 1, daily_unfollow_limit |-> 1, daily_engagement_limit |-> 1 ],
      [ daily_follow_limit |-> 500, daily_unfollow_limit |-> 500,
        daily_engagement_limit |-> 500 ] }

\* the config as the caller constructs it
SuppliedConfig(mode, platforms, limits) ==
    [ mode |-> mode, platforms |-> platforms,
      daily_follow_limit |-> limits.daily_follow_limit,
      daily_unfollow_limit |-> limits.daily_unfollow_limit,
      daily_engagement_limit |-> limits.daily_engagement_limit ]

\* an initialization that leaves the supplied limits in force
KeepSuppliedLimits(cfg) == cfg

\* mode_settings.get(self.config.mode, mode_settings[BuilderMode.MODERATE])
\* is written over the limits of the config
_initialize_mode_settings(cfg) ==
    LET settings == IF cfg.mode \in DOMAIN mode_settings THEN mode_settings[cfg.mode]
                    ELSE mode_settings["moderate"]
    IN  [ cfg EXCEPT !.daily_follow_limit = settings.daily_follow_limit,
                     !.daily_unfollow_limit = settings.daily_unfollow_limit,
                     !.daily_engagement_limit = settings.daily_engagement_limit ]

SafetyRecord ==
    [ health_score |-> 100, daily_actions |-> 0, warnings |-> <<>>, rate_limit_hits |-> 0 ]

BuilderStats ==
    [ total_follows |-> 0, total_engagements |-> 0, total_followers_gained |-> 0,
      account_health_score |-> 100 ]

Range(s) == { s[i] : i \in DOMAIN s }

NoStrategyId == <<"none", 0>>

NoMetrics ==
    [ total_follows |-> 0, total_engagements |-> 0,
      engagement_rate |-> [ num |-> 0, den |-> 1 ] ]

\* what a finished builder call handed to its caller: status is "ok" or the
\* exception raised, id the strategy id, follow_results and
\* engagement_results the per-campaign results of an execution and
\* growth_metrics its metrics, recommendations the number of entries
\* optimize_strategy returned, flagged_follow and flagged_engagement the
\* campaigns among them, mode_change the mode it recommends ("none" if none)
NoBuilderResult ==
    [ op |-> "none", status |-> "none", id |-> NoStrategyId, follow_results |-> <<>>,
      engagement_results |-> <<>>, growth_metrics |-> NoMetrics, recommendations |-> 0,
      flagged_follow |-> {}, flagged_engagement |-> {}, mode_change |-> "none" ]

\* UltimateFollowBuilder.__init__ with a given config
BuilderInit(mode, platforms) ==
    /\ config = BuilderConfig(mode, platforms)
    /\ active_campaigns = << >>
    /\ account_health = [ p \in Range(platforms) |-> SafetyRecord ]
    /\ stats = BuilderStats
    /\ eng_campaigns = << >>
    /\ eng_actions = <<>>
    /\ builder_result = NoBuilderResult

\* f"strategy-{niche}-{int(time.time())}"
StrategyId(niche, t) == <<niche, t>>

\* f"engagement-{platform}-{int(time.time())}"
EngagementCampaignId(platform, t) == <<platform, t>>

\* the target_criteria create_growth_strategy hands to its follow campaigns
\* (min_engagement_rate 0.02)
StrategyCriteria == [ DefaultCriteria EXCEPT !.min_engagement_rate = 200 ]

\* the first loop of create_growth_strategy from position i on: PlatformType(platform)
\* raises ValueError on a string that is no platform, and the campaigns made
\* for the platforms before it stay
RECURSIVE CreateFollowCampaigns(_, _, _, _)
CreateFollowCampaigns(hp, cs, i, ids) ==
    IF i > Len(config.platforms)
    THEN [ ok |-> TRUE, heap |-> hp, campaigns |-> cs, ids |-> ids ]
    ELSE IF config.platforms[i] \notin PlatformType
         THEN [ ok |-> FALSE, heap |-> hp, campaigns |-> cs, ids |-> ids ]
         ELSE LET campaign_id == CampaignId(config.platforms[i], now)
                  campaign == [ id |-> campaign_id, platform |-> config.platforms[i],
                                target_criteria |-> StrategyCriteria,
                                daily_follow_limit |-> config.daily_follow_limit,
                                daily_unfollow_limit |-> config.daily_unfollow_limit,
                                is_active |-> TRUE, total_follows |-> 0,
                                total_unfollows |-> 0, total_engagements |-> 0 ]
              IN  CreateFollowCampaigns(Append(hp, campaign),
                                        (campaign_id :> (Len(hp) + 1)) @@ cs,
                                        i + 1, Append(ids, campaign_id))

\* the second loop: one engagement campaign for each platform
RECURSIVE CreateEngagementCampaigns(_, _, _)
CreateEngagementCampaigns(ecs, i, ids) ==
    IF i > Len(config.platforms)
    THEN [ campaigns |-> ecs, ids |-> ids ]
    ELSE LET campaign_id == EngagementCampaignId(config.platforms[i], now)
             campaign == [ id |-> campaign_id, platform |-> config.platforms[i],
                           daily_engagement_limit |-> config.daily_engagement_limit,
                           is_active |-> TRUE, total_engagements |-> 0,
                           successful_engagements |-> 0 ]
         IN  CreateEngagementCampaigns((campaign_id :> campaign) @@ ecs, i + 1,
                                       Append(ids, campaign_id))

\* the first id of the pool that no community has
FreshCommunityId ==
    CommunityIdPool[CHOOSE i \in DOMAIN CommunityIdPool :
                      /\ CommunityIdPool[i] \notin DOMAIN members
                      /\ \A j \in 1..(i - 1) : CommunityIdPool[j] \in DOMAIN members]

create_growth_strategy(niche) ==
    /\ calls < MaxCalls
    /\ calls' = calls + 1
    /\ \E i \in DOMAIN CommunityIdPool : CommunityIdPool[i] \notin DOMAIN members
    /\ LET strategy_id == StrategyId(niche, now)
           fc == CreateFollowCampaigns(heap, campaigns, 1, <<>>)
           ec == CreateEngagementCampaigns(eng_campaigns, 1, <<>>)
           community_id == FreshCommunityId
       IN  /\ heap' = fc.heap
           /\ campaigns' = fc.campaigns
           /\ IF fc.ok
              THEN /\ eng_campaigns' = ec.campaigns
                   /\ members' = (community_id :> <<>>) @@ members
                   /\ active_campaigns' =
                         (strategy_id :> [ id |-> strategy_id, niche |-> niche,
                                           follow_campaigns |-> fc.ids,
                                           engagement_campaigns |-> ec.ids,
                                           community_id |-> community_id ])
                         @@ active_campaigns
                   /\ builder_result' = [ NoBuilderResult EXCEPT
                                            !.op = "create_growth_strategy",
                                            !.status = "ok", !.id = strategy_id ]
              ELSE /\ builder_result' = [ NoBuilderResult EXCEPT
                                            !.op = "create_growth_strategy",
                                            !.status = "ValueError" ]
                   /\ UNCHANGED <<eng_campaigns, members, active_campaigns>>
    /\ UNCHANGED <<now, actions, target_accounts, executor_calls, task, last_result,
                   users, user_order, collaborations, leaderboard_data, metrics_files,
                   awards_granted, ledger_result, config, account_health, stats,
                   eng_actions, sched_vars>>

\* what one run_campaign of an execution draws: the accounts the discovery
\* returns and the results of the executor, one for each target attempted
FollowRunInputs ==
    { [ batch |-> <<Ann>>, outcomes |-> <<"ok">> ],
      [ batch |-> <<Cat, Ann>>, outcomes |-> <<"fail", "ok">> ] }

\* what one run_engagement_campaign draws: for each target that passed the
\* filter, the engagement type chosen and the result of the executor
EngagementRunInputs ==
    { <<>>,
      << [ engagement_type |-> "like", success |-> TRUE ] >>,
      << [ engagement_type |-> "comment", success |-> FALSE ],
         [ engagement_type |-> "like", success |-> TRUE ] >> }

\* the loop of run_campaign from target i on, run without another task in
\* between: st holds the log, the campaign objects, the known targets, the
\* clock and the two counters of the run; the clock advances by the sleep of
\* every action attempted
RECURSIVE RunCampaignLoop(_, _, _, _, _)
RunCampaignLoop(cid, slice, outcomes, i, st) ==
    IF i > Len(slice) THEN st
    ELSE LET c == st.heap[campaigns[cid]] IN
         IF ~_check_rate_limit(st.actions, c.platform, "follow", st.t)
         THEN st
         ELSE LET pending == [ campaign_id |-> cid, action_type |-> "follow",
                               target_username |-> slice[i], platform |-> c.platform,
                               timestamp |-> st.t, success |-> FALSE,
                               error_message |-> "" ]
                  fin == ExecEnd(pending, campaigns[cid], outcomes[i], st.actions, st.heap)
              IN  RunCampaignLoop(cid, slice, outcomes, i + 1,
                     [ actions |-> fin.actions, heap |-> fin.heap,
                       target_accounts |-> st.target_accounts \cup {slice[i]},
                       t |-> st.t + DelayTicks,
                       executed |-> st.executed + 1,
                       successful |-> st.successful + (IF fin.action.success THEN 1 ELSE 0) ])

\* run_campaign as execute_growth_strategy awaits it
RunCampaign(cid, draw, acts, hp, known, t) ==
    LET campaign == hp[campaigns[cid]]
        targets  == _filter_and_score_targets(draw.batch, campaign.target_criteria)
        slice    == RunSlice(targets, campaign.daily_follow_limit)
        st       == RunCampaignLoop(cid, slice, draw.outcomes, 1,
                       [ actions |-> acts, heap |-> hp, target_accounts |-> known,
                         t |-> t, executed |-> 0, successful |-> 0 ])
    IN  [ state |-> st,
          result |-> [ campaign_id |-> cid, targets_found |-> Len(targets),
                       actions_executed |-> st.executed,
                       successful_actions |-> st.successful ] ]

\* the discovery of a run raised (random.randint in _find_niche_accounts on
\* a follower range that is empty or not made of integers)
DiscoveryRaises(draw) == "raises" \in DOMAIN draw

\* the loop of the follow campaigns left at the first campaign that raised
RECURSIVE RunFollowCampaignsStopAtError(_, _, _, _, _)
RunFollowCampaignsStopAtError(ids, draws, k, st, results) ==
    IF k > Len(ids) THEN [ state |-> st, results |-> results ]
    ELSE IF ids[k] \notin DOMAIN campaigns \/ DiscoveryRaises(draws[k])
         THEN [ state |-> st, results |-> Append(results, [ error |-> "ValueError" ]) ]
         ELSE LET r == RunCampaign(ids[k], draws[k], st.actions, st.heap,
                                   st.target_accounts, st.t)
              IN  RunFollowCampaignsStopAtError(ids, draws, k + 1, r.state,
                                                Append(results, r.result))

\* the follow campaigns of a strategy from position k on, one after the other
RECURSIVE RunFollowCampaigns(_, _, _, _, _)
RunFollowCampaigns(ids, draws, k, st, results) ==
    IF k > Len(ids) THEN [ state |-> st, results |-> results ]
    ELSE IF ids[k] \notin DOMAIN campaigns \/ DiscoveryRaises(draws[k])
         THEN RunFollowCampaigns(ids, draws, k + 1, st,
                                 Append(results, [ error |-> "ValueError" ]))
         ELSE LET r == RunCampaign(ids[k], draws[k], st.actions, st.heap,
                                   st.target_accounts, st.t)
              IN  RunFollowCampaigns(ids, draws, k + 1, r.state, Append(results, r.result))

\* execute_engagement_action for the targets of one run from position i on:
\* the sleep, the executor, the counters of the campaign and the append
RECURSIVE RunEngagementLoop(_, _, _, _)
RunEngagementLoop(cid, draw, i, st) ==
    IF i > Len(draw) THEN st
    ELSE LET c == st.campaigns[cid]
             action == [ target_username |-> <<"target_user", i>>,
                         engagement_type |-> draw[i].engagement_type,
                         platform |-> c.platform, timestamp |-> st.t,
                         success |-> draw[i].success ]
         IN  RunEngagementLoop(cid, draw, i + 1,
                [ campaigns |-> IF draw[i].success
                                THEN [ st.campaigns EXCEPT
                                         ![cid].total_engagements = @ + 1,
                                         ![cid].successful_engagements = @ + 1 ]
                                ELSE st.campaigns,
                  actions |-> Append(st.actions, action),
                  t |-> st.t + DelayTicks,
                  executed |-> st.executed + 1,
                  successful |-> st.successful + (IF draw[i].success THEN 1 ELSE 0) ])

\* the engagement campaigns of a strategy from position k on
RECURSIVE RunEngagementCampaigns(_, _, _, _, _)
RunEngagementCampaigns(ids, draws, k, st, results) ==
    IF k > Len(ids) THEN [ state |-> st, results |-> results ]
    ELSE IF ids[k] \notin DOMAIN st.campaigns
         THEN RunEngagementCampaigns(ids, draws, k + 1, st,
                                     Append(results, [ error |-> "ValueError" ]))
         ELSE LET limit == st.campaigns[ids[k]].daily_engagement_limit
                  draw  == SubSeq(draws[k], 1, Min(limit, Len(draws[k])))
                  run   == RunEngagementLoop(ids[k], draw, 1,
                              [ st EXCEPT !.executed = 0, !.successful = 0 ])
              IN  RunEngagementCampaigns(ids, draws, k + 1, run,
                     Append(results, [ campaign_id |-> ids[k],
                                       targets_found |-> Len(draws[k]),
                                       engagements_executed |-> run.executed,
                                       successful_engagements |-> run.successful ]))

\* result.get(key, 0)
ResultGet(result, key) == IF key \in DOMAIN result THEN result[key] ELSE 0

\* strategy.get(key, [])
StrategyGet(strategy, key) == IF key \in DOMAIN strategy THEN strategy[key] ELSE <<>>

RECURSIVE SumOf(_, _)
SumOf(results, key) ==
    IF results = <<>> THEN 0
    ELSE ResultGet(Head(results), key) + SumOf(Tail(results), key)

Max(a, b) == IF a > b THEN a ELSE b

\* the metrics are computed from the strategy entry of the registry
_calculate_growth_metrics(strategy) ==
    LET total_follows == SumOf(StrategyGet(strategy, "follow_results"),
                               "successful_actions")
        total_engagements == SumOf(StrategyGet(strategy, "engagement_results"),
                                   "successful_engagements")
    IN  [ total_follows |-> total_follows,
          total_engagements |-> total_engagements,
          engagement_rate |-> [ num |-> total_engagements,
                                den |-> Max(total_follows, 1) ] ]

\* a SafetyCycle in which a cycle without penalty gives health back
SafetyCycleRecovers(health, daily_follow_limit) ==
    IF health.daily_actions * 10 > daily_follow_limit * 8 \/ health.rate_limit_hits > 0
    THEN [ health EXCEPT !.health_score = Max(@ - 5, 0), !.daily_actions = 0 ]
    ELSE [ health EXCEPT !.health_score = @ + 5, !.daily_actions = 0 ]

\* SafetyCycle without the floor of health_score
SafetyCycleNoFloor(health, daily_follow_limit) ==
    LET h1 == IF health.daily_actions * 10 > daily_follow_limit * 8
              THEN [ health EXCEPT !.health_score = @ - 5,
                                   !.warnings = Append(@, "High daily action count") ]
              ELSE health
        h2 == IF h1.rate_limit_hits > 0
              THEN [ h1 EXCEPT !.health_score = @ - 10,
                               !.warnings = Append(@, "Rate limit exceeded") ]
              ELSE h1
    IN  [ h2 EXCEPT !.daily_actions = 0 ]

\* the update of one SafetyRecord; daily_actions > daily_follow_limit * 0.8
\* is compared in tenths
SafetyCycle(health, daily_follow_limit) ==
    LET h1 == IF health.daily_actions * 10 > daily_follow_limit * 8
              THEN [ health EXCEPT !.health_score = Max(@ - 5, 0),
                                   !.warnings = Append(@, "High daily action count") ]
              ELSE health
        h2 == IF h1.rate_limit_hits > 0
              THEN [ h1 EXCEPT !.health_score = Max(@ - 10, 0),
                               !.warnings = Append(@, "Rate limit exceeded") ]
              ELSE h1
    IN  [ h2 EXCEPT !.daily_actions = 0 ]

\* _update_account_health over config.platforms from position i on
RECURSIVE UpdateAccountHealth(_, _)
UpdateAccountHealth(ah, i) ==
    IF i > Len(config.platforms) THEN ah
    ELSE UpdateAccountHealth(
            [ ah EXCEPT ![config.platforms[i]] = SafetyCycle(@, config.daily_follow_limit) ],
            i + 1)

RECURSIVE SumHealth(_, _)
SumHealth(ah, ps) ==
    IF ps = {} THEN 0
    ELSE LET p == CHOOSE q \in ps : TRUE
         IN  ah[p].health_score + SumHealth(ah, ps \ {p})

\* _update_builder_stats: the average health, rounded down
AverageHealth(ah) ==
    IF DOMAIN ah = {} THEN 100
    ELSE SumHealth(ah, DOMAIN ah) \div Cardinality(DOMAIN ah)

\* the whole of one execute_growth_strategy call, awaited by its caller with
\* no other call in between
execute_growth_strategy(strategy_id, follow_draws, engagement_draws) ==
    /\ calls < MaxCalls
    /\ calls' = calls + 1
    /\ IF strategy_id \notin DOMAIN active_campaigns
       THEN /\ builder_result' = [ NoBuilderResult EXCEPT
                                     !.op = "execute_growth_strategy",
                                     !.status = "ValueError" ]
            /\ UNCHANGED <<now, heap, actions, target_accounts, executor_calls,
                           eng_campaigns, eng_actions, account_health, stats>>
       ELSE LET strategy == active_campaigns[strategy_id]
                fr == RunFollowCampaigns(strategy.follow_campaigns, follow_draws, 1,
                         [ actions |-> actions, heap |-> heap,
                           target_accounts |-> target_accounts, t |-> now,
                           executed |-> 0, successful |-> 0 ],
                         <<>>)
                er == RunEngagementCampaigns(strategy.engagement_campaigns,
                         engagement_draws, 1,
                         [ campaigns |-> eng_campaigns, actions |-> eng_actions,
                           t |-> fr.state.t, executed |-> 0, successful |-> 0 ],
                         <<>>)
                health == UpdateAccountHealth(account_health, 1)
            IN  /\ er.state.t <= MaxTime
                /\ now' = er.state.t
                /\ heap' = fr.state.heap
                /\ actions' = fr.state.actions
                /\ target_accounts' = fr.state.target_accounts
                /\ executor_calls' = executor_calls + (Len(fr.state.actions) - Len(actions))
                /\ eng_campaigns' = er.state.campaigns
                /\ eng_actions' = er.state.actions
                /\ account_health' = health
                /\ stats' = [ stats EXCEPT
                                !.total_follows =
                                    @ + SumOf(fr.results, "successful_actions"),
                                !.total_engagements =
                                    @ + SumOf(er.results, "successful_engagements"),
                                !.account_health_score = AverageHealth(health) ]
                /\ builder_result' =
                      [ NoBuilderResult EXCEPT
                          !.op = "execute_growth_strategy", !.status = "ok",
                          !.id = strategy_id,
                          !.follow_results = fr.results,
                          !.engagement_results = er.results,
                          !.growth_metrics = _calculate_growth_metrics(strategy) ]
    /\ UNCHANGED <<campaigns, task, last_result, ledger_vars, config, active_campaigns, sched_vars>>

\* get_campaign_stats(campaign_id).get("success_rate", 0) < 0.7
LowFollowSuccess(campaign_id) ==
    IF campaign_id \notin DOMAIN campaigns THEN TRUE
    ELSE LET mine == { i \in DOMAIN actions : actions[i].campaign_id = campaign_id }
             good == { i \in mine : actions[i].success }
         IN  10 * Cardinality(good) < 7 * Max(Cardinality(mine), 1)

\* get_engagement_stats reads a.campaign_id of every logged EngagementAction,
\* an attribute the class does not have: with a registered campaign and a
\* log that is not empty it raises AttributeError
EngagementStatsRaises(campaign_id) ==
    campaign_id \in DOMAIN eng_campaigns /\ eng_actions # <<>>

\* get_engagement_stats(campaign_id).get("overall_success_rate", 0) < 0.8
LowEngagementSuccess(campaign_id) ==
    IF campaign_id \notin DOMAIN eng_campaigns THEN TRUE
    ELSE LET c == eng_campaigns[campaign_id]
         IN  10 * c.successful_engagements < 8 * Max(c.total_engagements, 1)

\* the campaigns of ids that get a recommendation
CountLowFollow(ids) == Cardinality({ i \in DOMAIN ids : LowFollowSuccess(ids[i]) })

CountLowEngagement(ids) == Cardinality({ i \in DOMAIN ids : LowEngagementSuccess(ids[i]) })

optimize_strategy(strategy_id) ==
    /\ calls < MaxCalls
    /\ calls' = calls + 1
    /\ IF strategy_id \notin DOMAIN active_campaigns
       THEN builder_result' = [ NoBuilderResult EXCEPT !.op = "optimize_strategy",
                                                       !.status = "ValueError" ]
       ELSE LET strategy == active_campaigns[strategy_id] IN
            IF \E k \in DOMAIN strategy.engagement_campaigns :
                  EngagementStatsRaises(strategy.engagement_campaigns[k])
            THEN builder_result' = [ NoBuilderResult EXCEPT
                                       !.op = "optimize_strategy",
                                       !.status = "AttributeError",
                                       !.id = strategy_id ]
            ELSE builder_result' =
                    [ NoBuilderResult EXCEPT
                        !.op = "optimize_strategy", !.status = "ok",
                        !.id = strategy_id,
                        !.recommendations =
                            CountLowFollow(strategy.follow_campaigns)
                            + CountLowEngagement(strategy.engagement_campaigns)
                            + Cardinality({ p \in DOMAIN account_health :
                                              account_health[p].health_score < 80 })
                            + (IF stats.account_health_score < 70 THEN 1 ELSE 0),
                        !.flagged_follow =
                            { cid \in Range(strategy.follow_campaigns) :
                                LowFollowSuccess(cid) },
                        !.flagged_engagement =
                            { cid \in Range(strategy.engagement_campaigns) :
                                LowEngagementSuccess(cid) },
                        !.mode_change =
                            IF stats.account_health_score < 70 THEN "conservative"
                            ELSE "none" ]
    /\ UNCHANGED <<follow_vars, ledger_vars, config, active_campaigns, account_health,
                   stats, eng_campaigns, eng_actions, sched_vars>>

StrategyIdInputs == DOMAIN active_campaigns \cup {NoStrategyId}

BuilderNext ==
    \/ Tick
    \/ \E niche \in NicheInputs : create_growth_strategy(niche)
    \/ \E sid \in StrategyIdInputs,
          fd \in [ 1..2 -> FollowRunInputs ], ed \in [ 1..2 -> EngagementRunInputs ] :
          execute_growth_strategy(sid, fd, ed)
    \/ \E sid \in StrategyIdInputs : optimize_strategy(sid)

\* the creation of strategies, for a builder of any mode
ModeNext ==
    \/ Tick
    \/ \E niche \in NicheInputs : create_growth_strategy(niche)

\* the SafetyRecords a caller may have left: account_health is written by
\* whoever watches the platform
SafetyRecordInputs ==
    { [ health_score |-> h, daily_actions |-> d, warnings |-> <<>>, rate_limit_hits |-> r ] :
        h \in {100, 12, 3}, d \in {0, 9, 40, 45}, r \in {0, 1} }

\* one Safety Monitor cycle
_update_account_health ==
    /\ calls < MaxCalls
    /\ calls' = calls + 1
    /\ account_health' = UpdateAccountHealth(account_health, 1)
    /\ builder_result' = [ NoBuilderResult EXCEPT !.op = "_update_account_health",
                                                   !.status = "ok" ]
    /\ UNCHANGED <<follow_vars, ledger_vars, config, active_campaigns, stats,
                   eng_campaigns, eng_actions, sched_vars>>

HealthNext == _update_account_health

\* the SafetyRecords of the platform when the orchestrator starts to be
\* watched: fresh, near the floor, and with penalties due
MonitorRecordInputs ==
    { [ health_score |-> 100, daily_actions |-> 0, warnings |-> <<>>, rate_limit_hits |-> 0 ],
      [ health_score |-> 100, daily_actions |-> 45, warnings |-> <<>>, rate_limit_hits |-> 1 ],
      [ health_score |-> 3, daily_actions |-> 45, warnings |-> <<>>, rate_limit_hits |-> 0 ] }

\* every operation of the orchestrator
MonitorNext ==
    \/ BuilderNext
    \/ _update_account_health

----------------------------------------------------------------------------
\* Scheduler (GrowthEngineScheduler)

\* GrowthEngineScheduler.__init__ (and the default templates of its GrowthEngine)
SchedulerInit ==
    /\ running = FALSE
    /\ registered = 0
    /\ job_tasks = EmptyBag
    /\ metrics_history = <<>>
    /\ templates = [ t \in { "carousel-template-001", "thread-template-001",
                             "short-template-001" } |-> 0 ]
    /\ job_runs = [ j \in JobTypes |-> 0 ]
    /\ job_faults = [ j \in JobTypes |-> 0 ]
    /\ job_errors = [ j \in JobTypes |-> 0 ]
    /\ escaped = 0
    /\ sched_result = [ status |-> "none", job |-> "", message |-> "" ]

\* the keys of GrowthEngine.communities and of GrowthEngine.templates in
\* the order of their insertion
CommunityOrder ==
    SelectSeq(<<"niche-finder-001", "problem-solver-001">> \o CommunityIdPool,
              LAMBDA c : c \in DOMAIN members)

TemplateOrder == <<"carousel-template-001", "thread-template-001", "short-template-001">>

\* the number of templates the content job takes, the length the metrics
\* history is cut to, the least score of a suggestion that is kept
PopularTemplates == 5

HistoryLength == 24

MinSuggestionScore == 2

\* the pairs of _generate_collab_suggestions from (i, j) on
RECURSIVE SuggestFrom(_, _, _)
SuggestFrom(active, i, j) ==
    IF i > Len(active) THEN <<>>
    ELSE IF j > Len(active) THEN SuggestFrom(active, i + 1, i + 2)
    ELSE LET common == Range(active[i].communities) \cap Range(active[j].communities)
         IN  (IF active[i].user_id # active[j].user_id /\ Cardinality(common) > 0
              THEN << [ user1_id |-> active[i].user_id, user2_id |-> active[j].user_id,
                        score |-> Cardinality(common) ] >>
              ELSE <<>>)
             \o SuggestFrom(active, i, j + 1)

_generate_collab_suggestions(us, order) ==
    LET all    == [ i \in DOMAIN order |-> us[order[i]] ]
        active == SelectSeq(all, LAMBDA u : u.weekly_engagement > 0)
    IN  SuggestFrom(active, 1, 2)

_async_daily_collab_suggestions_job(io_ok) ==
    /\ calls < MaxOps
    /\ calls' = calls + 1
    /\ LET suggestions == _generate_collab_suggestions(users, user_order)
           kept   == SelectSeq(suggestions, LAMBDA x : x.score >= MinSuggestionScore)
           sorted == SortDesc([ i \in DOMAIN kept |-> [ key |-> kept[i].score,
                                                        val |-> kept[i] ] ])
           ranked == [ i \in 1..Min(TopN, Len(sorted)) |-> sorted[i].val ]
       IN  /\ metrics_files' = SaveMetrics(metrics_files, "collab_suggestions",
                                           [ suggestions |-> ranked,
                                             total_generated |-> Len(suggestions) ],
                                           io_ok)
           /\ ledger_result' = LedgerResult("collab_suggestions_job", "", io_ok, ranked)
    /\ JobEnd("collab_suggestions", ~io_ok)
    /\ UNCHANGED <<users, user_order, members, collaborations, leaderboard_data,
                   awards_granted, follow_vars, builder_vars, running, registered,
                   metrics_history, templates>>

RECURSIVE SumXp(_, _)
SumXp(us, order) ==
    IF order = <<>> THEN 0 ELSE us[Head(order)].xp_points + SumXp(us, Tail(order))

\* the metrics _log_engagement_metrics computes (the average as a
\* fraction), with the timestamp ts
EngagementMetricsAt(ts) ==
    [ total_users |-> Cardinality(DOMAIN users),
      total_communities |-> Cardinality(DOMAIN members),
      total_collaborations |-> Len(collaborations),
      total_templates |-> Cardinality(DOMAIN templates),
      avg_xp_per_user |-> [ num |-> SumXp(users, user_order),
                            den |-> Max(Cardinality(DOMAIN users), 1) ],
      timestamp |-> ts ]

\* datetime.now() of a run of the metrics job: the time is the number of the run
EngagementMetrics == EngagementMetricsAt(job_runs["metrics"] + 1)

\* a history that is cut to its first entries
FirstOf(history, n) ==
    IF Len(history) > n THEN SubSeq(history, 1, n) ELSE history

\* self.metrics_history[-24:]
LastOf(history, n) ==
    IF Len(history) > n THEN SubSeq(history, Len(history) - n + 1, Len(history))
    ELSE history

\* _log_engagement_metrics appends to its file, then the job appends to the
\* history; when the file cannot be written neither happens
_async_hourly_metrics_job(io_ok) ==
    /\ calls < MaxOps
    /\ calls' = calls + 1
    /\ metrics_files' = SaveMetrics(metrics_files, "engagement_metrics",
                                    EngagementMetrics, io_ok)
    /\ metrics_history' = IF io_ok
                          THEN LastOf(Append(metrics_history, EngagementMetrics),
                                      HistoryLength)
                          ELSE metrics_history
    /\ ledger_result' = LedgerResult("metrics_job", "", io_ok, <<>>)
    /\ JobEnd("metrics", ~io_ok)
    /\ UNCHANGED <<users, user_order, members, collaborations, leaderboard_data,
                   awards_granted, follow_vars, builder_vars, running, registered,
                   templates>>

\* what is left of a metrics file when json.dump raised in the middle
CorruptFile == <<[incomplete |-> TRUE]>>

\* _save_metrics with a record that holds a datetime: json.dump raises
\* TypeError after the file was opened for writing; a file left incomplete
\* makes json.load raise the next time
SaveUnserializable(files, metric_type, io_ok) ==
    IF io_ok THEN (metric_type :> CorruptFile) @@ files ELSE files

\* every content generated by the job carries scheduled_time, a datetime
_async_daily_content_scheduling_job(io_ok) ==
    /\ calls < MaxOps
    /\ calls' = calls + 1
    /\ LET sorted  == SortDesc([ i \in DOMAIN TemplateOrder |->
                                   [ key |-> templates[TemplateOrder[i]],
                                     val |-> TemplateOrder[i] ] ])
           popular == { sorted[i].val : i \in 1..Min(PopularTemplates, Len(sorted)) }
           scheduled_content == Cardinality(popular)
       IN  /\ templates' = [ t \in DOMAIN templates |->
                               IF t \in popular THEN templates[t] + 1 ELSE templates[t] ]
           /\ IF scheduled_content > 0
              THEN /\ metrics_files' = SaveUnserializable(metrics_files,
                                                          "content_scheduling", io_ok)
                   /\ JobEnd("content_scheduling", TRUE)
                   /\ ledger_result' = LedgerResult("content_scheduling_job", "",
                                                    FALSE, <<>>)
              ELSE /\ metrics_files' = SaveMetrics(metrics_files, "content_scheduling",
                                                   [ scheduled_content |-> <<>> ], io_ok)
                   /\ JobEnd("content_scheduling", ~io_ok)
                   /\ ledger_result' = LedgerResult("content_scheduling_job", "",
                                                    io_ok, <<>>)
    /\ UNCHANGED <<users, user_order, members, collaborations, leaderboard_data,
                   awards_granted, follow_vars, builder_vars, running, registered,
                   metrics_history>>

\* the analysis of one community; growth_score is
\* total_members * (active_members / max(total_members, 1)), that is
\* active_members
CommunityAnalysis(community_id) ==
    LET active == { i \in DOMAIN members[community_id] :
                      /\ members[community_id][i] \in DOMAIN users
                      /\ users[members[community_id][i]].weekly_engagement > 0 }
    IN  [ community_id |-> community_id,
          total_members |-> Len(members[community_id]),
          active_members |-> Cardinality(active) ]

_async_weekly_community_analysis_job(io_ok) ==
    /\ calls < MaxOps
    /\ calls' = calls + 1
    /\ LET sorted == SortDesc([ i \in DOMAIN CommunityOrder |->
                                  [ key |-> CommunityAnalysis(CommunityOrder[i]).active_members,
                                    val |-> CommunityAnalysis(CommunityOrder[i]) ] ])
           community_analysis == [ i \in DOMAIN sorted |-> sorted[i].val ]
       IN  /\ metrics_files' = SaveMetrics(metrics_files, "community_analysis",
                                           [ community_analysis |-> community_analysis ],
                                           io_ok)
           /\ ledger_result' = LedgerResult("community_analysis_job", "", io_ok,
                                            community_analysis)
    /\ JobEnd("community_analysis", ~io_ok)
    /\ UNCHANGED <<users, user_order, members, collaborations, leaderboard_data,
                   awards_granted, follow_vars, builder_vars, running, registered,
                   metrics_history, templates>>

\* the handler of a job type
Handler(job, io_ok) ==
    CASE job = "leaderboard"        -> _async_weekly_leaderboard_job(io_ok)
      [] job = "collab_suggestions" -> _async_daily_collab_suggestions_job(io_ok)
      [] job = "metrics"            -> _async_hourly_metrics_job(io_ok)
      [] job = "content_scheduling" -> _async_daily_content_scheduling_job(io_ok)
      [] job = "community_analysis" -> _async_weekly_community_analysis_job(io_ok)
      [] job = "badge_awards"       -> _async_daily_badge_awards_job(io_ok)

\* start_scheduler up to its first sleep: the jobs are registered with the
\* schedule once more and the loop starts
start_scheduler ==
    /\ calls < MaxOps
    /\ calls' = calls + 1
    /\ running' = TRUE
    /\ registered' = registered + 1
    /\ UNCHANGED <<follow_vars, ledger_vars, builder_vars, job_tasks, metrics_history,
                   templates, job_runs, job_faults, job_errors, escaped, sched_result>>

stop_scheduler ==
    /\ running
    /\ running' = FALSE
    /\ UNCHANGED <<follow_vars, ledger_vars, builder_vars, calls, registered, job_tasks,
                   metrics_history, templates, job_runs, job_faults, job_errors,
                   escaped, sched_result>>

\* the jobs that are due at a pass of the loop
DueInputs == { {"leaderboard"}, {"metrics", "content_scheduling"}, {"badge_awards"} }

\* one pass of the scheduler loop: schedule.run_pending() creates a task
\* for every registration of every job that is due
SchedulerTick(due) ==
    /\ running
    /\ calls < MaxOps
    /\ calls' = calls + 1
    /\ job_tasks' = job_tasks (+) [ j \in due |-> registered ]
    /\ UNCHANGED <<follow_vars, ledger_vars, builder_vars, running, registered,
                   metrics_history, templates, job_runs, job_faults, job_errors,
                   escaped, sched_result>>

\* the event loop runs the task of a job
RunTask(job, io_ok) ==
    /\ BagIn(job, job_tasks)
    /\ job_tasks' = job_tasks (-) One(job)
    /\ Handler(job, io_ok)
    /\ UNCHANGED sched_result

JobTypeInputs == JobTypes \cup {"no_such_job"}

\* a mistaken result: success for every name
ManualJobResultAnyName(job_type, raised) ==
    [ status |-> "success", job |-> job_type, message |-> "" ]

\* what run_manual_job returns; the message of the error result holds the
\* job type for an unknown name and the exception for one that was raised
ManualJobResult(job_type, raised) ==
    IF job_type \in JobTypes /\ ~raised
    THEN [ status |-> "success", job |-> job_type, message |-> "" ]
    ELSE [ status |-> "error", job |-> "",
           message |-> IF raised THEN "exception" ELSE job_type ]

run_manual_job(job_type, io_ok) ==
    IF job_type \in JobTypes
    THEN /\ Handler(job_type, io_ok)
         /\ sched_result' = ManualJobResult(job_type, escaped' > escaped)
         /\ UNCHANGED job_tasks
    ELSE /\ calls < MaxOps
         /\ calls' = calls + 1
         /\ sched_result' = ManualJobResult(job_type, FALSE)
         /\ UNCHANGED <<follow_vars, ledger_vars, builder_vars, running, registered,
                        job_tasks, metrics_history, templates, job_runs, job_faults,
                        job_errors, escaped>>

SchedNext ==
    \/ \E u \in UserIdInputs : create_user_profile(u)
    \/ \E u \in UserIdInputs : record_activity(u, "weekly_engagement", 5)
    \/ start_scheduler
    \/ stop_scheduler
    \/ \E due \in DueInputs : SchedulerTick(due)
    \/ \E job \in JobTypes, io_ok \in BOOLEAN : RunTask(job, io_ok)
    \/ \E job_type \in JobTypeInputs, io_ok \in BOOLEAN : run_manual_job(job_type, io_ok)

----------------------------------------------------------------------------
\* Query surface (the GET endpoints of the web API)

\* GET /api/communities
list_communities ==
    /\ ledger_result' = LedgerResult("list_communities", "", TRUE,
                                     [ i \in DOMAIN CommunityOrder |->
                                         [ id |-> CommunityOrder[i],
                                           member_count |-> Len(members[CommunityOrder[i]]) ] ])
    /\ UNCHANGED <<users, user_order, members, collaborations, leaderboard_data,
                   metrics_files, awards_granted, follow_vars, calls, builder_vars,
                   sched_vars>>

\* GET /api/users
list_users ==
    /\ ledger_result' = LedgerResult("list_users", "", TRUE,
                                     [ i \in DOMAIN user_order |-> users[user_order[i]] ])
    /\ UNCHANGED <<users, user_order, members, collaborations, leaderboard_data,
                   metrics_files, awards_granted, follow_vars, calls, builder_vars,
                   sched_vars>>

\* GET /api/users/{user_id}: the profile, or 404 for an id without one
get_user(user_id) ==
    /\ ledger_result' = IF user_id \in DOMAIN users
                        THEN LedgerResult("get_user", "", TRUE, << users[user_id] >>)
                        ELSE LedgerResult("get_user", "", FALSE, <<>>)
    /\ UNCHANGED <<users, user_order, members, collaborations, leaderboard_data,
                   metrics_files, awards_granted, follow_vars, calls, builder_vars,
                   sched_vars>>

\* GET /api/leaderboard: the endpoint calls update_leaderboard(platform)
\* and returns what it returns
get_leaderboard(arg) ==
    /\ LET top == UpdateLeaderboard(users, user_order)
       IN  /\ leaderboard_data' = (PlatformKey(arg) :> top) @@ leaderboard_data
           /\ ledger_result' = LedgerResult("get_leaderboard", arg, TRUE, top)
    /\ UNCHANGED <<users, user_order, members, collaborations, metrics_files,
                   awards_granted, follow_vars, calls, builder_vars, sched_vars>>

\* GET /api/health
health_check ==
    /\ ledger_result' = LedgerResult("health_check", "", TRUE,
                                     << [ users |-> Cardinality(DOMAIN users),
                                          communities |-> Cardinality(DOMAIN members),
                                          collaborations |-> Len(collaborations),
                                          templates |-> Cardinality(DOMAIN templates) ] >>)
    /\ UNCHANGED <<users, user_order, members, collaborations, leaderboard_data,
                   metrics_files, awards_granted, follow_vars, calls, builder_vars,
                   sched_vars>>

\* a call of the query surface
Query ==
    \/ list_communities
    \/ list_users
    \/ \E u \in UserIdInputs : get_user(u)
    \/ \E a \in PlatformArgInputs : get_leaderboard(a)
    \/ health_check

QueryNext ==
    \/ \E u \in UserIdInputs : create_user_profile(u)
    \/ \E u \in UserIdInputs, c \in CommunityInputs : join_community(u, c)
    \/ \E u \in UserIdInputs, b \in BadgeInputs : award_badge(u, b)
    \/ list_communities
    \/ list_users
    \/ \E u \in UserIdInputs : get_user(u)
    \/ \E a \in PlatformArgInputs : get_leaderboard(a)
    \/ health_check

\* the communities two users have joined and their activity, before the
\* collab_suggestions job runs
CollabProfileInputs ==
    [ communities : { <<>>, <<"niche-finder-001">>,
                      <<"niche-finder-001", "problem-solver-001">> },
      weekly_engagement : {0, 3} ]

\* the profiles after the joins: every join gave 10 XP
CollabPopulation(profile) ==
    [ u \in DOMAIN profile |->
        [ UserProfile(u, Username(u)) EXCEPT
            !.communities = profile[u].communities,
            !.xp_points = 10 * Len(profile[u].communities),
            !.weekly_engagement = profile[u].weekly_engagement ] ]

\* the members of community c, in the order of the user ids
MembersOf(us, order, c) ==
    SelectSeq(order, LAMBDA u : Contains(us[u].communities, c))

CollabNext ==
    \/ \E u \in UserIdInputs : record_activity(u, "weekly_engagement", 5)
    \/ \E job \in {"collab_suggestions", "leaderboard"}, io_ok \in BOOLEAN :
          run_manual_job(job, io_ok)

\* the numbers of metrics job runs before the window is watched
PastRunInputs == {0, 23, 24, 30}

WindowNext ==
    \/ \E u \in UserIdInputs : create_user_profile(u)
    \/ \E io_ok \in BOOLEAN : run_manual_job("metrics", io_ok)

----------------------------------------------------------------------------
\* Concurrent award attempts
\*
\* The job tasks and the API calls run on one event loop.  award_badge,
\* update_leaderboard and _save_metrics hold no suspension point, so a job
\* handler runs from its start to its end without another task in between:
\* the interleavings of the award attempts are the orders in which the
\* loop runs the tasks and serves the API calls.

\* the activity of a user before the attempts
AwardProfileInputs ==
    [ weekly_engagement : {0, 3}, total_posts : {0, 5}, collaboration_count : {0, 3} ]

AwardPopulation(profile) ==
    [ u \in DOMAIN profile |->
        [ UserProfile(u, Username(u)) EXCEPT
            !.weekly_engagement = profile[u].weekly_engagement,
            !.total_posts = profile[u].total_posts,
            !.collaboration_count = profile[u].collaboration_count ] ]

\* the jobs that award badges, due at one pass of the loop
AwardDueInputs == { {"leaderboard", "badge_awards"}, {"badge_awards"} }

AwardNext ==
    \/ \E due \in AwardDueInputs : SchedulerTick(due)
    \/ \E job \in {"leaderboard", "badge_awards"}, io_ok \in BOOLEAN : RunTask(job, io_ok)
    \/ \E u \in UserIdInputs, b \in BadgeInputs : award_badge(u, b)

----------------------------------------------------------------------------
\* Strategies whose engagement runs comment more than once

\* what the follow run of such a strategy draws
QuotaFollowInputs == { [ batch |-> <<Ann>>, outcomes |-> <<"ok">> ] }

\* what its engagement run draws: nothing, one like, or two comments
QuotaEngagementInputs ==
    { <<>>,
      << [ engagement_type |-> "like", success |-> TRUE ] >>,
      << [ engagement_type |-> "comment", success |-> TRUE ],
         [ engagement_type |-> "comment", success |-> FALSE ] >> }

QuotaNext ==
    \/ Tick
    \/ \E niche \in NicheInputs : create_growth_strategy(niche)
    \/ \E sid \in StrategyIdInputs,
          fd \in [ 1..2 -> QuotaFollowInputs ], ed \in [ 1..2 -> QuotaEngagementInputs ] :
          execute_growth_strategy(sid, fd, ed)

----------------------------------------------------------------------------
\* Strategies with a follow campaign whose run raises

\* what the follow run of a campaign draws: its discovery raises, or it
\* finds one account and follows it
IsolationFollowInputs ==
    { [ batch |-> <<>>, outcomes |-> <<>>, raises |-> TRUE ],
      [ batch |-> <<Ann>>, outcomes |-> <<"ok">> ] }

IsolationEngagementInputs ==
    { <<>>, << [ engagement_type |-> "like", success |-> TRUE ] >> }

IsolationNext ==
    \/ \E niche \in NicheInputs : create_growth_strategy(niche)
    \/ \E sid \in StrategyIdInputs,
          fd \in [ 1..2 -> IsolationFollowInputs ],
          ed \in [ 1..2 -> IsolationEngagementInputs ] :
          execute_growth_strategy(sid, fd, ed)

----------------------------------------------------------------------------
\* The Target Scorer on discovery passes that hold accounts at its edges

ScorerNext ==
    \/ Tick
    \/ \E p \in PlatformInputs, l \in DailyLimitInputs : create_follow_campaign(p, l)
    \/ \E cid \in DOMAIN campaigns, b \in ScorerBatches : RunStart(cid, b)
    \/ \E t \in BagToSet(task), o \in Outcomes : RunStep(t, o)

----------------------------------------------------------------------------
\* A campaign run and the scheduler loop on the same event loop

\* what discovery returns for the runs that are stopped
StopBatchInputs == { <<Cat, Ann, Bob>> }

\* the job that is due at the passes of the loop
StopDueInputs == { {"metrics"} }

CancelNext ==
    \/ Tick
    \/ \E p \in PlatformInputs, l \in DailyLimitInputs : create_follow_campaign(p, l)
    \/ \E cid \in DOMAIN campaigns, b \in StopBatchInputs : RunStart(cid, b)
    \/ \E t \in BagToSet(task), o \in Outcomes : RunStep(t, o)
    \/ start_scheduler
    \/ stop_scheduler
    \/ \E due \in StopDueInputs : SchedulerTick(due)
    \/ \E job \in JobTypes, io_ok \in BOOLEAN : RunTask(job, io_ok)

----------------------------------------------------------------------------
\* Specifications

Init ==
    /\ FollowInit
    /\ LedgerInit
    /\ BuilderInit("moderate", <<"twitter">>)
    /\ calls = 0
    /\ SchedulerInit

FollowSpec == Init /\ [][FollowNext]_vars

LedgerSpec == Init /\ [][LedgerNext]_vars

SchedSpec == Init /\ [][SchedNext]_vars

CancelSpec == Init /\ [][CancelNext]_vars

ScorerSpec == Init /\ [][ScorerNext]_vars

QuerySpec == Init /\ [][QueryNext]_vars

BuilderSpecInit ==
    /\ FollowInit
    /\ LedgerInit
    /\ \E mode \in ModeInputs, platforms \in PlatformListInputs :
          BuilderInit(mode, platforms)
    /\ calls = 0
    /\ SchedulerInit

BuilderSpec == BuilderSpecInit /\ [][BuilderNext]_vars

QuotaSpec == BuilderSpecInit /\ [][QuotaNext]_vars

\* a builder of two platforms
IsolationInit ==
    /\ FollowInit
    /\ LedgerInit
    /\ BuilderInit("moderate", <<"instagram", "twitter">>)
    /\ calls = 0
    /\ SchedulerInit

IsolationSpec == IsolationInit /\ [][IsolationNext]_vars

\* UltimateFollowBuilder.__init__ with a config of any mode and limits
ModeInit ==
    /\ FollowInit
    /\ LedgerInit
    /\ calls = 0
    /\ SchedulerInit
    /\ \E mode \in BuilderMode, platforms \in { <<"twitter">>, <<"instagram", "twitter">> },
          limits \in SuppliedLimitInputs :
          /\ config = _initialize_mode_settings(SuppliedConfig(mode, platforms, limits))
          /\ account_health = [ p \in Range(platforms) |-> SafetyRecord ]
    /\ active_campaigns = << >>
    /\ stats = BuilderStats
    /\ eng_campaigns = << >>
    /\ eng_actions = <<>>
    /\ builder_result = NoBuilderResult

ModeSpec == ModeInit /\ [][ModeNext]_vars

HealthInit ==
    /\ FollowInit
    /\ LedgerInit
    /\ calls = 0
    /\ SchedulerInit
    /\ \E mode \in ModeInputs, platforms \in PlatformListInputs :
          /\ config = BuilderConfig(mode, platforms)
          /\ account_health \in [ Range(platforms) -> SafetyRecordInputs ]
    /\ active_campaigns = << >>
    /\ stats = BuilderStats
    /\ eng_campaigns = << >>
    /\ eng_actions = <<>>
    /\ builder_result = NoBuilderResult

HealthSpec == HealthInit /\ [][HealthNext]_vars

MonitorInit ==
    /\ FollowInit
    /\ LedgerInit
    /\ calls = 0
    /\ SchedulerInit
    /\ config = BuilderConfig("moderate", <<"twitter">>)
    /\ account_health \in [ {"twitter"} -> MonitorRecordInputs ]
    /\ active_campaigns = << >>
    /\ stats = BuilderStats
    /\ eng_campaigns = << >>
    /\ eng_actions = <<>>
    /\ builder_result = NoBuilderResult

MonitorSpec == MonitorInit /\ [][MonitorNext]_vars

LeaderInit ==
    /\ FollowInit
    /\ calls = 0
    /\ SchedulerInit
    /\ \E n \in 0..MaxUsers :
          /\ user_order = [ i \in 1..n |-> i ]
          /\ \E profile \in [ 1..n -> ProfileInputs ] : users = Population(n, profile)
    /\ members = [ c \in {"niche-finder-001", "problem-solver-001"} |-> <<>> ]
    /\ collaborations = <<>>
    /\ leaderboard_data = << >>
    /\ metrics_files = [ leaderboard |-> <<>>, badge_awards |-> <<>> ]
    /\ awards_granted = EmptyBag
    /\ ledger_result = NoLedgerResult
    /\ BuilderInit("moderate", <<"twitter">>)

LeaderSpec == LeaderInit /\ [][LeaderNext]_vars

\* the metrics job has run a number of times on the fresh engine
WindowInit ==
    /\ FollowInit
    /\ calls = 0
    /\ BuilderInit("moderate", <<"twitter">>)
    /\ users = << >>
    /\ user_order = <<>>
    /\ members = [ c \in {"niche-finder-001", "problem-solver-001"} |-> <<>> ]
    /\ collaborations = <<>>
    /\ leaderboard_data = << >>
    /\ awards_granted = EmptyBag
    /\ running = FALSE
    /\ registered = 0
    /\ job_tasks = EmptyBag
    /\ templates = [ t \in Range(TemplateOrder) |-> 0 ]
    /\ job_faults = [ j \in JobTypes |-> 0 ]
    /\ job_errors = [ j \in JobTypes |-> 0 ]
    /\ escaped = 0
    /\ \E runs \in PastRunInputs :
          /\ job_runs = [ j \in JobTypes |-> IF j = "metrics" THEN runs ELSE 0 ]
          /\ metrics_files = [ leaderboard |-> <<>>, badge_awards |-> <<>>,
                               engagement_metrics |->
                                   [ i \in 1..runs |-> EngagementMetricsAt(i) ] ]
          /\ metrics_history =
                LastOf([ i \in 1..runs |-> EngagementMetricsAt(i) ], HistoryLength)
          /\ ledger_result = IF runs = 0 THEN NoLedgerResult
                             ELSE LedgerResult("metrics_job", "", TRUE, <<>>)
          /\ sched_result = IF runs = 0
                            THEN [ status |-> "none", job |-> "", message |-> "" ]
                            ELSE ManualJobResult("metrics", FALSE)

WindowSpec == WindowInit /\ [][WindowNext]_vars

\* the users exist and have joined their communities
CollabInit ==
    /\ FollowInit
    /\ calls = 0
    /\ BuilderInit("moderate", <<"twitter">>)
    /\ SchedulerInit
    /\ user_order = <<1, 2>>
    /\ \E profile \in [ 1..2 -> CollabProfileInputs ] :
          /\ users = CollabPopulation(profile)
          /\ members = [ c \in {"niche-finder-001", "problem-solver-001"} |->
                           MembersOf(CollabPopulation(profile), <<1, 2>>, c) ]
    /\ collaborations = <<>>
    /\ leaderboard_data = << >>
    /\ metrics_files = [ leaderboard |-> <<>>, badge_awards |-> <<>> ]
    /\ awards_granted = EmptyBag
    /\ ledger_result = NoLedgerResult

CollabSpec == CollabInit /\ [][CollabNext]_vars

\* the profiles exist and the scheduler was started
AwardInit ==
    /\ FollowInit
    /\ calls = 0
    /\ BuilderInit("moderate", <<"twitter">>)
    /\ user_order = <<1, 2>>
    /\ \E profile \in [ 1..2 -> AwardProfileInputs ] : users = AwardPopulation(profile)
    /\ members = [ c \in {"niche-finder-001", "problem-solver-001"} |-> <<>> ]
    /\ collaborations = <<>>
    /\ leaderboard_data = << >>
    /\ metrics_files = [ leaderboard |-> <<>>, badge_awards |-> <<>> ]
    /\ awards_granted = EmptyBag
    /\ ledger_result = NoLedgerResult
    /\ running = TRUE
    /\ registered = 1
    /\ job_tasks = EmptyBag
    /\ metrics_history = <<>>
    /\ templates = [ t \in Range(TemplateOrder) |-> 0 ]
    /\ job_runs = [ j \in JobTypes |-> 0 ]
    /\ job_faults = [ j \in JobTypes |-> 0 ]
    /\ job_errors = [ j \in JobTypes |-> 0 ]
    /\ escaped = 0
    /\ sched_result = [ status |-> "none", job |-> "", message |-> "" ]

AwardSpec == AwardInit /\ [][AwardNext]_vars

----------------------------------------------------------------------------
\* Properties of FollowSpec

\* the coroutines whose sleep ends in the step, and those the step suspends
Woken == task (-) task'

Started == task' (-) task

RunWoken(t) == BagIn(t, Woken) /\ t.op = "run"

Counters(c) == <<c.total_follows, c.total_unfollows, c.total_engagements>>

\* the counters of the campaign objects that exist before the step are the same after it
CountersUnchanged == \A i \in DOMAIN heap : Counters(heap'[i]) = Counters(heap[i])

SuccessfulFollows(cid) ==
    { i \in DOMAIN actions : /\ actions[i].campaign_id = cid
                             /\ actions[i].action_type = "follow"
                             /\ actions[i].success }

\* C1 (quota invariant): for every platform and action type with a configured
\* hourly limit, the number of recorded actions of that platform and type
\* whose timestamp lies in the trailing hour never exceeds the limit.
QuotaInvariant ==
    \A p \in PlatformType, a \in ActionType :
        HasLimit(p, a) => Cardinality(RecentActions(actions, p, a, now)) <= Limit(p, a)

\* C2 (serialized check-then-record): between the quota check of a task and
\* its own append no other task checks or appends on the same bucket, that
\* is, no two tasks are at once between check and append on one limited
\* (platform, action type) bucket.
CheckThenRecordSerialized ==
    \A t1, t2 \in BagToSet(task) :
        (/\ t1 # t2 \/ CopiesIn(t1, task) >= 2
         /\ t1.pending.platform = t2.pending.platform
         /\ t1.pending.action_type = t2.pending.action_type)
        => ~HasLimit(t1.pending.platform, t1.pending.action_type)

\* C5 (counter consistency): for every campaign id of the registry,
\* total_follows of the registered campaign equals the number of recorded
\* actions with that campaign_id, type follow and success true.
CounterConsistency ==
    \A cid \in DOMAIN campaigns :
        heap[campaigns[cid]].total_follows = Cardinality(SuccessfulFollows(cid))

RunResultSound ==
    last_result.status = "run" =>
        /\ last_result.planned = Min(last_result.limit, last_result.found)
        /\ last_result.executed = Len(last_result.slots)
        /\ last_result.executed <= last_result.planned
        /\ last_result.denied <=> (last_result.executed < last_result.planned)
        /\ \A k \in DOMAIN last_result.slots :
              /\ last_result.slots[k] \in DOMAIN actions
              /\ actions[last_result.slots[k]].action_type = "follow"
        /\ last_result.successful =
              Cardinality({ k \in DOMAIN last_result.slots :
                              actions[last_result.slots[k]].success })
        /\ last_result.successful <= last_result.limit

\* a successful action of a run adds one to total_follows of the campaign
\* object its call looked up and changes no other counter; a failed one
\* changes none
RunCounterStep ==
    \A t \in BagToSet(task) :
        (RunWoken(t) /\ Len(actions') = Len(actions) + 1) =>
            IF actions'[Len(actions')].success
            THEN heap' = [ heap EXCEPT ![t.camp].total_follows = @ + 1 ]
            ELSE heap' = heap

RunVisitsEveryTarget ==
    last_result.status = "run" =>
        /\ last_result.visited = last_result.planned
        /\ last_result.executed = Len(last_result.slots)

\* C8 (no attempt on denial, pure check): the executor is invoked and the log
\* grows only when the sleep of a permitted action ends, once and by one
\* action each; an action goes in flight only when the quota check of its
\* bucket passes; a step in which calls only start, are checked or are denied
\* invokes no executor, appends nothing and changes no counter; and a call
\* that was denied raised the rate-limit condition (or ended its run) and
\* left no action in flight.
DeniedActionNotAttempted ==
    [][ /\ executor_calls' = executor_calls + BagCardinality(Woken)
        /\ Len(actions') = Len(actions) + BagCardinality(Woken)
        /\ SubSeq(actions', 1, Len(actions)) = actions
        /\ \A nt \in BagToSet(Started) :
              _check_rate_limit(actions', nt.pending.platform,
                                nt.pending.action_type, now)
        /\ BagToSet(Woken) = {} => (actions' = actions /\ CountersUnchanged)
        /\ (last_result' # last_result /\ last_result'.denied) =>
              /\ last_result'.status \in {"RateLimit", "run"}
              /\ BagToSet(Started) = {}
      ]_vars

\* an execute_follow_action call was denied by the quota check
ExecuteDenied ==
    /\ last_result.op = "exec"
    /\ last_result.status = "RateLimit"
    /\ last_result.denied
    /\ Len(actions) = executor_calls

\* a running run_campaign has appended one action for each target before the
\* current one, in the order of its slice, and no target occurs twice
RunTargetsOnce ==
    \A t \in BagToSet(task) :
        t.op = "run" =>
            /\ \A j, k \in DOMAIN t.slice : t.slice[j] = t.slice[k] => j = k
            /\ Len(t.slots) = t.idx - 1
            /\ t.pending.target_username = t.slice[t.idx]
            /\ \A k \in DOMAIN t.slots :
                  /\ t.slots[k] \in DOMAIN actions
                  /\ actions[t.slots[k]].target_username = t.slice[k]
                  /\ \A j \in DOMAIN t.slots : t.slots[j] = t.slots[k] => j = k

\* the run does not end because of the action just recorded: it sleeps on
\* the next target, or returns because the slice is exhausted or because the
\* quota check of the next target denied
RunGoesOn(t) ==
    IF t.idx < Len(t.slice)
    THEN \/ \E nt \in BagToSet(Started) :
               /\ nt.op = "run"
               /\ nt.cid = t.cid
               /\ nt.slice = t.slice
               /\ nt.idx = t.idx + 1
               /\ nt.pending.target_username = t.slice[t.idx + 1]
         \/ /\ BagToSet(Started) = {}
            /\ last_result'.status = "run"
            /\ last_result'.denied
            /\ last_result'.visited = t.idx + 1
    ELSE /\ BagToSet(Started) = {}
         /\ last_result'.status = "run"
         /\ ~last_result'.broke

\* when the sleep of a run's action ends exactly one action is appended, for
\* the current target; if it failed no counter changes and the run goes on
RunFailureStep ==
    \A t \in BagToSet(task) :
        RunWoken(t) =>
            /\ Len(actions') = Len(actions) + 1
            /\ SubSeq(actions', 1, Len(actions)) = actions
            /\ LET a == actions'[Len(actions')] IN
               /\ a.target_username = t.slice[t.idx]
               /\ a.campaign_id = t.cid
               /\ ~a.success => (CountersUnchanged /\ RunGoesOn(t))

\* C9 (executor failure): when the executor returns a non-true result or
\* raises, exactly one action with success false is recorded for the target,
\* no counter is incremented, the target is not attempted again in the run
\* and the run goes on to the next target.
FailureRecordedOnce == []RunTargetsOnce /\ [][RunFailureStep]_vars

\* a run recorded a failed action for its first target and is at its second
RunWentOnAfterFailure ==
    \E t \in BagToSet(task) :
        /\ t.op = "run"
        /\ t.idx = 2
        /\ ~actions[t.slots[1]].success

\* every recorded action names a campaign of the registry
ActionsReferToCampaigns ==
    \A i \in DOMAIN actions : actions[i].campaign_id \in DOMAIN campaigns

\* the log after the step starts with the log before it, and it is one
\* action longer exactly when the step is the second part of an
\* execute_follow_action call that passed its checks (the executor was
\* invoked), the new entry being the action that was in flight
LogStep ==
    /\ Len(actions') >= Len(actions)
    /\ SubSeq(actions', 1, Len(actions)) = actions
    /\ Len(actions') = Len(actions) + (executor_calls' - executor_calls)
    /\ executor_calls' # executor_calls =>
          /\ executor_calls' = executor_calls + 1
          /\ \E t \in BagToSet(Woken) :
                /\ actions'[Len(actions')].campaign_id = t.pending.campaign_id
                /\ actions'[Len(actions')].target_username = t.pending.target_username
                /\ actions'[Len(actions')].action_type = t.pending.action_type
                /\ actions'[Len(actions')].timestamp = t.pending.timestamp

\* C32 (append-only log): every execute_follow_action that passed the
\* campaign and quota checks appends exactly one action, no step removes,
\* reorders or changes an action of the log, and the campaign_id of every
\* recorded action is an id of the registry.
ActionLogAppendOnly == []ActionsReferToCampaigns /\ [][LogStep]_vars

\* the log holds two actions, the first of them failed, and it was still
\* there unchanged when the second was appended
LogGrewPastFailure ==
    /\ Len(actions) = 2
    /\ ~actions[1].success
    /\ actions[2].success
    /\ executor_calls = 2

\* the step appends a successful action that names the campaign id
SuccessRecordedFor(cid) ==
    /\ Len(actions') = Len(actions) + 1
    /\ actions'[Len(actions')].campaign_id = cid
    /\ actions'[Len(actions')].success

\* C33 (campaigns are kept): a campaign of the registry is after every step
\* the same campaign object under the same id, it is active, none of its
\* counters is smaller than before, and a counter changed only in a step
\* that recorded a successful action naming its id.
CampaignKept ==
    [][ \A cid \in DOMAIN campaigns :
          /\ cid \in DOMAIN campaigns'
          /\ campaigns'[cid] = campaigns[cid]
          /\ heap'[campaigns'[cid]].is_active
          /\ \A k \in 1..3 :
                Counters(heap'[campaigns'[cid]])[k] >= Counters(heap[campaigns[cid]])[k]
          /\ Counters(heap'[campaigns'[cid]]) # Counters(heap[campaigns[cid]]) =>
                SuccessRecordedFor(cid)
      ]_vars

\* the engagement score of the discovered account of a username
ScoreOfName(u) ==
    _calculate_engagement_score(CHOOSE a \in {Ann, Bob, Cat, Dan} : a.username = u)

\* a run_campaign under way: its targets are in descending score order and
\* pairwise different, the action in flight is the one for the target at
\* idx, and the targets before it have one recorded action each, at
\* increasing places of the log
RunInOrder(t) ==
    /\ \A j, k \in DOMAIN t.slice :
          j < k => /\ ScoreOfName(t.slice[j]) >= ScoreOfName(t.slice[k])
                   /\ t.slice[j] # t.slice[k]
    /\ t.idx \in DOMAIN t.slice
    /\ t.pending.target_username = t.slice[t.idx]
    /\ Len(t.slots) = t.idx - 1
    /\ \A k \in DOMAIN t.slots :
          /\ t.slots[k] \in DOMAIN actions
          /\ actions[t.slots[k]].target_username = t.slice[k]
          /\ actions[t.slots[k]].campaign_id = t.cid
          /\ k > 1 => t.slots[k - 1] < t.slots[k]

\* when the sleep of a run ends, the action recorded is the one that was in
\* flight, and the run either is over or has moved to the next target
RunAdvances ==
    \A t \in BagToSet(task) :
        RunWoken(t) =>
            /\ actions'[Len(actions')].target_username = t.slice[t.idx]
            /\ \A n \in BagToSet(Started) :
                  /\ n.op = "run"
                  /\ n.slice = t.slice
                  /\ n.idx = t.idx + 1

\* C34 (order of a run): a run attempts its targets in descending order of
\* engagement score, one at a time: the action for a target starts only
\* after the action for the target before it was recorded, and no target
\* is attempted twice.
RunScoreOrder ==
    /\ [](\A t \in BagToSet(task) : t.op = "run" => RunInOrder(t))
    /\ [][RunAdvances]_vars

\* a run that discovered cat, ann, bob has recorded the action for bob, the
\* best score, and is at ann
RunAtSecondBest ==
    \E t \in BagToSet(task) :
        /\ t.op = "run"
        /\ t.slice = <<"bob", "ann">>
        /\ t.idx = 2
        /\ actions[t.slots[1]].target_username = "bob"

\* the place in Counters of the counter that matches an action type
MatchingCounter(atype) ==
    IF atype = "follow" THEN 1 ELSE IF atype = "unfollow" THEN 2 ELSE 3

\* C36 (matching counter): the step that records a successful action adds
\* one to the counter of its campaign that matches its type (total_follows
\* for follow, total_unfollows for unfollow, total_engagements for like,
\* comment, dm and story_view) and changes no other counter; the step that
\* records a failed action changes no counter.
CounterMatchesType ==
    [][ \A t \in BagToSet(Woken) :
          LET a == actions'[Len(actions')]
          IN  IF a.success
              THEN /\ \A i \in DOMAIN heap \ {t.camp} :
                         Counters(heap'[i]) = Counters(heap[i])
                   /\ \A k \in 1..3 :
                         Counters(heap'[t.camp])[k] =
                            Counters(heap[t.camp])[k]
                              + (IF k = MatchingCounter(a.action_type) THEN 1 ELSE 0)
              ELSE CountersUnchanged
      ]_vars

----------------------------------------------------------------------------
\* Properties of LedgerSpec

BadgeCount(us, user_id, badge_type) ==
    Cardinality({ i \in DOMAIN us[user_id].badges : us[user_id].badges[i] = badge_type })

\* the step is a call of award_badge for a badge that an earlier award_badge
\* call gave to the same user
SecondAward ==
    /\ calls' = calls + 1
    /\ ledger_result'.op = "award_badge"
    /\ BagIn(<<ledger_result'.value[1], ledger_result'.arg>>, awards_granted)

\* C3 (badge idempotence): whatever ledger operations came in between, a
\* second award of badge B to an existing user U returns false and changes
\* nothing, and leaves exactly one occurrence of B in U.badges: the reward
\* of B is added to U.xp_points exactly once.
BadgeAwardedOnce ==
    [][ SecondAward =>
          /\ ~ledger_result'.ok
          /\ users' = users
          /\ awards_granted' = awards_granted
          /\ ledger_result'.value[1] \in DOMAIN users =>
                BadgeCount(users', ledger_result'.value[1], ledger_result'.arg) = 1
      ]_vars

\* C4 (XP monotonicity): no ledger operation decreases the xp_points of a
\* user id that has a profile, and none removes the profile.
XpMonotone ==
    [][ \A u \in DOMAIN users :
          /\ u \in DOMAIN users'
          /\ users'[u].xp_points >= users[u].xp_points
      ]_vars

\* C11 (tie-break): in every snapshot update_leaderboard stored, users with
\* equal score are in ascending order of user_id, whatever the order in which
\* their profiles were created.
TiesByUserId ==
    \A k \in DOMAIN leaderboard_data :
        \A i, j \in DOMAIN leaderboard_data[k] :
            (i < j /\ leaderboard_data[k][i].score = leaderboard_data[k][j].score)
                => leaderboard_data[k][i].user_id < leaderboard_data[k][j].user_id


\* the registries and logs an operation with an unknown id must leave alone
Registries == <<heap, campaigns, actions, task, users, user_order, members>>

\* C12 (unknown id rejected): execute_follow_action and run_campaign with a
\* campaign id that is not registered, award_badge with a user id that has no
\* profile, and join_community with a user id that has no profile or a
\* community id that does not exist, are rejected and leave the campaigns,
\* the action log, the users and the member lists as they were.
UnknownIdRejected ==
    [][ /\ \A cid \in CampaignIdInputs \ DOMAIN campaigns :
              /\ \A u \in TargetInputs, a \in ActionTypeInputs :
                    ExecuteStart(cid, u, a) =>
                        (UNCHANGED Registries /\ last_result'.status = "ValueError")
              /\ \A b \in CandidateBatches :
                    RunStart(cid, b) =>
                        (UNCHANGED Registries /\ last_result'.status = "ValueError")
        /\ \A u \in UserIdInputs \ DOMAIN users, b \in BadgeInputs :
              award_badge(u, b) => (UNCHANGED Registries /\ ~ledger_result'.ok)
        /\ \A u \in UserIdInputs, c \in CommunityInputs :
              ((u \notin DOMAIN users \/ c \notin DOMAIN members)
                  /\ join_community(u, c))
              => (UNCHANGED Registries /\ ~ledger_result'.ok)
      ]_vars

\* no element occurs twice in the list
NoDuplicates(s) == \A i, j \in DOMAIN s : s[i] = s[j] => i = j

\* C38 (membership): no members list and no communities list holds a
\* duplicate, and for every user with a profile and every community the
\* community is in the user's communities exactly when the user is in the
\* community's members.
MembershipConsistent ==
    /\ \A c \in DOMAIN members : NoDuplicates(members[c])
    /\ \A u \in DOMAIN users : NoDuplicates(users[u].communities)
    /\ \A u \in DOMAIN users, c \in DOMAIN members :
          Contains(users[u].communities, c) <=> Contains(members[c], u)

----------------------------------------------------------------------------
\* Properties of BuilderSpec

\* everything create_growth_strategy can create
Resources == <<heap, campaigns, eng_campaigns, members, active_campaigns>>

\* C13 (configuration error before any resource): a create_growth_strategy
\* call on a platform list with an entry that is not a recognized platform
\* is rejected, and no campaign, community or strategy entry exists after it
\* that did not exist before.
NoResourceOnConfigError ==
    [][ \A niche \in NicheInputs :
          (/\ \E i \in DOMAIN config.platforms : config.platforms[i] \notin PlatformType
           /\ create_growth_strategy(niche))
          => (builder_result'.status = "ValueError" /\ UNCHANGED Resources)
      ]_vars

\* C15 (advisory optimization): for every known strategy id,
\* optimize_strategy leaves the campaigns, their counters and limits, the
\* action logs, the mode and every SafetyRecord as they were and returns its
\* recommendations without raising, also after engagement actions have been
\* recorded.
OptimizeAdvisory ==
    [][ \A sid \in DOMAIN active_campaigns :
          optimize_strategy(sid) =>
              /\ UNCHANGED <<heap, campaigns, actions, eng_campaigns, eng_actions,
                             config, account_health, active_campaigns, stats>>
              /\ builder_result'.status = "ok"
      ]_vars

\* C16 (growth metrics): the growth metrics in the report of an
\* execute_growth_strategy call aggregate the results of that run:
\* total_follows is the sum of the successful follow actions of the
\* strategy's follow campaigns, total_engagements the sum of the successful
\* engagements of its engagement campaigns, and engagement_rate is
\* total_engagements / max(total_follows, 1).
MetricsAggregateRun ==
    (builder_result.op = "execute_growth_strategy" /\ builder_result.status = "ok") =>
        LET metrics == builder_result.growth_metrics IN
        /\ metrics.total_follows =
              SumOf(builder_result.follow_results, "successful_actions")
        /\ metrics.total_engagements =
              SumOf(builder_result.engagement_results, "successful_engagements")
        /\ metrics.engagement_rate.num = metrics.total_engagements
        /\ metrics.engagement_rate.den =
              (IF metrics.total_follows > 1 THEN metrics.total_follows ELSE 1)

Distinct(ids) == \A j, k \in DOMAIN ids : ids[j] = ids[k] => j = k

\* C17 (strategy references): the entry of every strategy references one
\* registered follow campaign and one registered engagement campaign for each
\* configured platform, all distinct, and one existing community; the
\* resources referenced by two different strategies are disjoint.
StrategyReferences ==
    /\ \A sid \in DOMAIN active_campaigns :
          LET strategy == active_campaigns[sid] IN
          /\ Len(strategy.follow_campaigns) = Len(config.platforms)
          /\ Len(strategy.engagement_campaigns) = Len(config.platforms)
          /\ Distinct(strategy.follow_campaigns)
          /\ Distinct(strategy.engagement_campaigns)
          /\ \A k \in DOMAIN config.platforms :
                /\ strategy.follow_campaigns[k] \in DOMAIN campaigns
                /\ heap[campaigns[strategy.follow_campaigns[k]]].platform
                      = config.platforms[k]
                /\ strategy.engagement_campaigns[k] \in DOMAIN eng_campaigns
                /\ eng_campaigns[strategy.engagement_campaigns[k]].platform
                      = config.platforms[k]
          /\ strategy.community_id \in DOMAIN members
    /\ \A s1, s2 \in DOMAIN active_campaigns :
          s1 # s2 =>
              /\ Range(active_campaigns[s1].follow_campaigns)
                    \cap Range(active_campaigns[s2].follow_campaigns) = {}
              /\ Range(active_campaigns[s1].engagement_campaigns)
                    \cap Range(active_campaigns[s2].engagement_campaigns) = {}
              /\ active_campaigns[s1].community_id # active_campaigns[s2].community_id

\* the step is a call of execute_growth_strategy that ran a strategy
ExecutedStrategy ==
    /\ calls' = calls + 1
    /\ builder_result'.op = "execute_growth_strategy"
    /\ builder_result'.status = "ok"

\* the result of a follow campaign whose run was ended by the quota check:
\* fewer actions were executed than targets were taken
QuotaDenied(result) ==
    /\ "campaign_id" \in DOMAIN result
    /\ result.actions_executed
         < Min(result.targets_found,
               heap'[campaigns'[result.campaign_id]].daily_follow_limit)

\* C23: the Safety Monitor cycle of execute_growth_strategy works on the
\* actions of the cycle: when the run of a follow campaign on a platform was
\* denied by the quota check, the cycle counts the denial and takes 10 from
\* the health_score of that platform (down to the floor of 0)
DenialLowersHealth ==
    [][ ExecutedStrategy =>
          \A k \in DOMAIN builder_result'.follow_results :
            LET result == builder_result'.follow_results[k] IN
            QuotaDenied(result) =>
              LET p == heap'[campaigns'[result.campaign_id]].platform IN
              /\ p \in DOMAIN account_health
              /\ account_health'[p].rate_limit_hits > 0
              /\ account_health'[p].health_score
                   <= Max(account_health[p].health_score - 10, 0)
      ]_vars

\* the recorded follow actions of a campaign, and the successful ones
FollowActionsOf(cid) == { i \in DOMAIN actions : actions[i].campaign_id = cid }

FollowSuccessesOf(cid) == { i \in FollowActionsOf(cid) : actions[i].success }

\* C24: for every known strategy the optimization pass returns its
\* recommendations; it recommends a mode change exactly when the average
\* health_score of the platforms is below 70, and the mode recommended has
\* no higher limits than the active one; it flags a follow campaign that
\* has actions exactly when fewer than 0.7 of them succeeded, and an
\* engagement campaign that has engagements exactly when fewer than 0.8 of
\* them succeeded
OptimizeFlagsExactly ==
    [][ \A sid \in DOMAIN active_campaigns :
          optimize_strategy(sid) =>
            LET result == builder_result'
                strategy == active_campaigns[sid]
            IN  /\ result.status = "ok"
                /\ (result.mode_change # "none") <=> (AverageHealth(account_health) < 70)
                /\ result.mode_change # "none" =>
                     /\ mode_settings[result.mode_change].daily_follow_limit
                          <= config.daily_follow_limit
                     /\ mode_settings[result.mode_change].daily_engagement_limit
                          <= config.daily_engagement_limit
                /\ \A cid \in Range(strategy.follow_campaigns) :
                     FollowActionsOf(cid) # {} =>
                       ((cid \in result.flagged_follow)
                          <=> (10 * Cardinality(FollowSuccessesOf(cid))
                                 < 7 * Cardinality(FollowActionsOf(cid))))
                /\ \A cid \in Range(strategy.engagement_campaigns) :
                     (cid \in DOMAIN eng_campaigns
                        /\ eng_campaigns[cid].total_engagements > 0) =>
                       ((cid \in result.flagged_engagement)
                          <=> (10 * eng_campaigns[cid].successful_engagements
                                 < 8 * eng_campaigns[cid].total_engagements))
      ]_vars

\* the type of an entry of the action log or of the engagement log
TypeOf(a) == IF "action_type" \in DOMAIN a THEN a.action_type ELSE a.engagement_type

\* a quota check made for entry i of a log when it was created permitted
\* it: the bucket has no configured limit, or fewer entries of the bucket
\* than the limit were recorded before it within the hour that ends at its
\* timestamp
CheckPermitted(log, i, platform, atype) ==
    HasLimit(platform, atype) =>
        Cardinality({ j \in 1..(i - 1) :
                        /\ log[j].platform = platform
                        /\ TypeOf(log[j]) = atype
                        /\ log[j].timestamp > log[i].timestamp - HourTicks })
          < Limit(platform, atype)

\* C37: every action that reached the platform executor, a follow action of
\* a Follow campaign or an engagement action of an Engagement campaign, was
\* permitted by a quota check of its bucket made in the same call.
QuotaCheckPrecedesExecutor ==
    /\ \A i \in DOMAIN actions :
          CheckPermitted(actions, i, actions[i].platform, actions[i].action_type)
    /\ \A i \in DOMAIN eng_actions :
          CheckPermitted(eng_actions, i, eng_actions[i].platform,
                         eng_actions[i].engagement_type)

\* the entry of a report for a campaign is an error entry
IsErrorEntry(entry) == "error" \in DOMAIN entry

\* the number of successful entries a log got in the step
NewSuccesses(before, after) ==
    Cardinality({ i \in (Len(before) + 1)..Len(after) : after[i].success })

\* C40 (campaign fault isolation): execute_growth_strategy of a known
\* strategy returns a report and does not raise; the report has one entry
\* for each follow campaign and one for each engagement campaign of the
\* strategy, an error entry for a campaign whose run raised and the result
\* of its run for every other one, also after an error entry; and the
\* totals of the builder grow by the successful actions of the runs that
\* completed, which are the successful actions the step recorded.
StrategySurvivesFailure ==
    [][ \A sid \in DOMAIN active_campaigns,
           fd \in [ 1..2 -> IsolationFollowInputs ],
           ed \in [ 1..2 -> IsolationEngagementInputs ] :
          execute_growth_strategy(sid, fd, ed) =>
            LET strategy == active_campaigns[sid]
                report   == builder_result'
            IN  /\ report.status = "ok"
                /\ Len(report.follow_results) = Len(strategy.follow_campaigns)
                /\ Len(report.engagement_results) = Len(strategy.engagement_campaigns)
                /\ \A k \in DOMAIN report.follow_results :
                      IF DiscoveryRaises(fd[k])
                      THEN IsErrorEntry(report.follow_results[k])
                      ELSE /\ ~IsErrorEntry(report.follow_results[k])
                           /\ report.follow_results[k].campaign_id
                                 = strategy.follow_campaigns[k]
                /\ \A k \in DOMAIN report.engagement_results :
                      /\ ~IsErrorEntry(report.engagement_results[k])
                      /\ report.engagement_results[k].campaign_id
                            = strategy.engagement_campaigns[k]
                /\ stats'.total_follows =
                      stats.total_follows + SumOf(report.follow_results, "successful_actions")
                /\ stats'.total_follows - stats.total_follows = NewSuccesses(actions, actions')
                /\ stats'.total_engagements =
                      stats.total_engagements
                        + SumOf(report.engagement_results, "successful_engagements")
                /\ stats'.total_engagements - stats.total_engagements
                      = NewSuccesses(eng_actions, eng_actions')
      ]_vars

\* a strategy of two platforms was executed: the run of its first follow
\* campaign raised, the second followed one account, and the builder
\* counted that follow
SecondCampaignRanAfterError ==
    /\ builder_result.op = "execute_growth_strategy"
    /\ builder_result.status = "ok"
    /\ Len(builder_result.follow_results) = 2
    /\ IsErrorEntry(builder_result.follow_results[1])
    /\ ~IsErrorEntry(builder_result.follow_results[2])
    /\ builder_result.follow_results[2].successful_actions = 1
    /\ stats.total_follows = 1

----------------------------------------------------------------------------
\* Properties of ModeSpec

\* C25: whatever limits the config was constructed with, the daily follow,
\* unfollow and engagement limits of the builder are those of the settings
\* of its mode, and so are the limits of every campaign that
\* create_growth_strategy creates
LimitsFollowMode ==
    LET settings == mode_settings[config.mode] IN
    /\ config.daily_follow_limit = settings.daily_follow_limit
    /\ config.daily_unfollow_limit = settings.daily_unfollow_limit
    /\ config.daily_engagement_limit = settings.daily_engagement_limit
    /\ \A cid \in DOMAIN campaigns :
          /\ heap[campaigns[cid]].daily_follow_limit = settings.daily_follow_limit
          /\ heap[campaigns[cid]].daily_unfollow_limit = settings.daily_unfollow_limit
    /\ \A cid \in DOMAIN eng_campaigns :
          eng_campaigns[cid].daily_engagement_limit = settings.daily_engagement_limit

\* a builder in safe mode created a strategy with its campaigns
SafeModeStrategyCreated ==
    /\ config.mode = "safe"
    /\ builder_result.op = "create_growth_strategy"
    /\ builder_result.id \in DOMAIN active_campaigns
    /\ \E cid \in DOMAIN campaigns : heap[campaigns[cid]].daily_follow_limit = 10
    /\ \E cid \in DOMAIN eng_campaigns : eng_campaigns[cid].daily_engagement_limit = 25

----------------------------------------------------------------------------
\* Properties of HealthSpec

\* what one cycle takes from the health of a record
Penalty(health) ==
    (IF 10 * health.daily_actions > 8 * config.daily_follow_limit THEN 5 ELSE 0)
    + (IF health.rate_limit_hits > 0 THEN 10 ELSE 0)

WarningsAdded(health) ==
    (IF 10 * health.daily_actions > 8 * config.daily_follow_limit THEN 1 ELSE 0)
    + (IF health.rate_limit_hits > 0 THEN 1 ELSE 0)

\* C14 (safety cycle): one cycle subtracts 5 from health_score and appends a
\* warning if daily_actions > 0.8 * daily_follow_limit, subtracts 10 and
\* appends a warning if rate_limit_hits > 0, floors health_score at 0 and
\* resets daily_actions to 0; from health 100 with daily_actions 45 of a limit
\* of 50 and one rate-limit hit the result is health 85 with two warnings.
SafetyCycleContract ==
    [][ \A p \in DOMAIN account_health :
          LET before == account_health[p]
              after  == account_health'[p]
          IN  /\ after.health_score =
                    IF before.health_score - Penalty(before) < 0 THEN 0
                    ELSE before.health_score - Penalty(before)
              /\ after.health_score >= 0
              /\ Len(after.warnings) = Len(before.warnings) + WarningsAdded(before)
              /\ SubSeq(after.warnings, 1, Len(before.warnings)) = before.warnings
              /\ after.daily_actions = 0
              /\ after.rate_limit_hits = before.rate_limit_hits
              /\ (/\ before.health_score = 100
                  /\ before.daily_actions = 45
                  /\ config.daily_follow_limit = 50
                  /\ before.rate_limit_hits = 1)
                 => (after.health_score = 85
                     /\ Len(after.warnings) = Len(before.warnings) + 2)
      ]_vars

\* the cycle of the scenario was run: health 100, 45 actions of 50, one hit
SafetyScenarioRun ==
    /\ config.daily_follow_limit = 50
    /\ builder_result.op = "_update_account_health"
    /\ account_health["twitter"] =
          [ health_score |-> 85, daily_actions |-> 0,
            warnings |-> <<"High daily action count", "Rate limit exceeded">>,
            rate_limit_hits |-> 1 ]

----------------------------------------------------------------------------
\* Properties of SchedSpec

\* a step in which the handler of job raised
FaultStep(job) == job_faults'[job] = job_faults[job] + 1

\* C18: an exception raised in a job handler is caught and logged with the
\* job (one log entry per fault), never leaves the handler, so neither the
\* scheduler task nor the manual trigger sees it; the step leaves the loop
\* running, the registrations, the tasks of the other jobs and the metrics
\* files of the other jobs as they were, and afterwards every handler can
\* still be run
JobFaultIsolation ==
    [][ /\ escaped' = escaped
        /\ \A job \in JobTypes :
             /\ job_errors'[job] - job_errors[job] = job_faults'[job] - job_faults[job]
             /\ FaultStep(job) =>
                  /\ running' = running
                  /\ registered' = registered
                  /\ \A other \in JobTypes \ {job} :
                       /\ CopiesIn(other, job_tasks') = CopiesIn(other, job_tasks)
                       /\ job_runs'[other] = job_runs[other]
                       /\ other \in DOMAIN metrics_files =>
                            /\ other \in DOMAIN metrics_files'
                            /\ metrics_files'[other] = metrics_files[other]
                  /\ sched_result' # sched_result => sched_result'.status = "success"
                  /\ calls' < MaxOps =>
                       \A later \in JobTypes :
                         (ENABLED (\E io_ok \in BOOLEAN : run_manual_job(later, io_ok)))'
      ]_vars

\* the metrics job raised, was logged, and ran again to its end
LaterRunAfterFault ==
    /\ job_faults["metrics"] >= 1
    /\ job_errors["metrics"] >= 1
    /\ ledger_result.op = "metrics_job"
    /\ ledger_result.ok
    /\ job_runs["metrics"] >= 2

\* C19: run_manual_job with a name that is none of the six job types
\* returns a result with status error, runs no handler and leaves the
\* ledger and the scheduler as they were; with one of the six names the
\* job field of the result is that name
ManualJobContract ==
    [][ \A job_type \in JobTypeInputs, io_ok \in BOOLEAN :
          run_manual_job(job_type, io_ok) =>
            /\ job_type \notin JobTypes =>
                 /\ sched_result'.status = "error"
                 /\ job_runs' = job_runs
                 /\ job_faults' = job_faults
                 /\ UNCHANGED <<ledger_vars, running, registered, job_tasks,
                                metrics_history, templates, job_errors, escaped>>
            /\ job_type \in JobTypes =>
                 /\ sched_result'.job = job_type
                 /\ job_runs'[job_type] = job_runs[job_type] + 1
      ]_vars

\* an unknown name was given to run_manual_job after handlers had run and
\* had written to the ledger's files
UnknownJobRefused ==
    /\ sched_result.status = "error"
    /\ sched_result.message = "no_such_job"
    /\ \E job \in JobTypes : job_runs[job] >= 1
    /\ \E f \in DOMAIN metrics_files : metrics_files[f] # <<>>

\* a step in which the handler of job ran (to its end, or to its except clause)
JobRan(job) == job_runs'[job] = job_runs[job] + 1

\* C26: when the leaderboard job has run, the snapshot under "all" is the
\* ranking of the users as they were, the user at rank 1 of it holds the
\* weekly_top badge (once) and nobody else was given a badge, and the
\* weekly_engagement of every user is 0; with no users the job awards
\* nothing, stores the empty ranking and ends all the same
LeaderboardJobEffect ==
    [][ JobRan("leaderboard") =>
          LET leaderboard == UpdateLeaderboard(users, user_order) IN
          /\ "all" \in DOMAIN leaderboard_data'
          /\ leaderboard_data'["all"] = leaderboard
          /\ DOMAIN users' = DOMAIN users
          /\ \A u \in DOMAIN users' : users'[u].weekly_engagement = 0
          /\ leaderboard # <<>> =>
               /\ BadgeCount(users', leaderboard[1].user_id, "weekly_top") = 1
               /\ \A u \in DOMAIN users \ {leaderboard[1].user_id} :
                    users'[u].badges = users[u].badges
          /\ leaderboard = <<>> =>
               /\ users' = users
               /\ awards_granted' = awards_granted
          /\ escaped' = escaped
      ]_vars

\* the job ran over two users: the one at rank 1 had engagement in the week,
\* holds the badge now, and the engagement of both is reset
WeeklyTopAwarded ==
    /\ ledger_result.op = "leaderboard_job"
    /\ job_runs["leaderboard"] >= 1
    /\ "all" \in DOMAIN leaderboard_data
    /\ Len(leaderboard_data["all"]) = 2
    /\ leaderboard_data["all"][1].weekly_engagement > 0
    /\ Contains(users[leaderboard_data["all"][1].user_id].badges, "weekly_top")
    /\ \A u \in DOMAIN users : users[u].weekly_engagement = 0

\* the record list of a job (the metrics job keeps its own file), empty
\* when the file does not exist
RecordsOf(job, files) ==
    LET key == IF job = "metrics" THEN "engagement_metrics" ELSE job
    IN  IF key \in DOMAIN files THEN files[key] ELSE <<>>

\* C30: a run of any of the six jobs leaves the record list of its job a
\* readable list that starts with the records it held before, in their
\* order, and a run that ended without an exception has appended exactly
\* one record to it
PersistOneRecord ==
    [][ \A job \in JobTypes :
          JobRan(job) =>
            LET before == RecordsOf(job, metrics_files)
                after  == RecordsOf(job, metrics_files')
            IN  /\ after # CorruptFile
                /\ Len(after) >= Len(before)
                /\ SubSeq(after, 1, Len(before)) = before
                /\ job_faults'[job] = job_faults[job] => Len(after) = Len(before) + 1
      ]_vars

\* C39: the result of a manual trigger of one of the six jobs tells what
\* the handler did: status success only if no exception was raised in the
\* handler and its record was added to the record list of the job, status
\* error if an exception was raised in it
ManualResultReflectsHandler ==
    [][ \A job \in JobTypes, io_ok \in BOOLEAN :
          run_manual_job(job, io_ok) =>
            /\ sched_result'.status = "success" =>
                  /\ job_faults'[job] = job_faults[job]
                  /\ Len(RecordsOf(job, metrics_files')) =
                        Len(RecordsOf(job, metrics_files)) + 1
            /\ job_faults'[job] > job_faults[job] => sched_result'.status = "error"
      ]_vars

----------------------------------------------------------------------------
\* Properties of CollabSpec

\* the communities two users share
Shared(u, v) == Range(users[u].communities) \cap Range(users[v].communities)

\* the pairs of distinct users that share a community
SharingPairs ==
    { pair \in (DOMAIN users) \X (DOMAIN users) :
        pair[1] < pair[2] /\ Shared(pair[1], pair[2]) # {} }

\* C27: a run of the collab_suggestions job that could write its file
\* generated one suggestion for every pair of distinct users sharing a
\* community, and the record it persisted holds, for every pair sharing two
\* or more, a suggestion scored with the number of shared communities,
\* whatever the weekly_engagement of the two users is
SuggestionForEveryPair ==
    [][ (JobRan("collab_suggestions") /\ job_faults' = job_faults) =>
          LET file   == metrics_files'["collab_suggestions"]
              record == file[Len(file)]
          IN  /\ record.total_generated = Cardinality(SharingPairs)
              /\ \A pair \in SharingPairs :
                   Cardinality(Shared(pair[1], pair[2])) >= MinSuggestionScore =>
                     \E i \in DOMAIN record.suggestions :
                        /\ { record.suggestions[i].user1_id,
                             record.suggestions[i].user2_id } = { pair[1], pair[2] }
                        /\ record.suggestions[i].score
                             = Cardinality(Shared(pair[1], pair[2]))
      ]_vars

----------------------------------------------------------------------------
\* Properties of WindowSpec

\* every snapshot taken so far, in the order taken: the metrics file
Snapshots == metrics_files["engagement_metrics"]

\* C28: the in-memory window of the metrics job holds at most 24 entries,
\* and they are the snapshots taken last, in the order in which they were
\* taken
MetricsWindow ==
    /\ Len(metrics_history) <= 24
    /\ Len(metrics_history) = Min(24, Len(Snapshots))
    /\ \A i \in DOMAIN metrics_history :
          metrics_history[i]
            = Snapshots[Len(Snapshots) - Len(metrics_history) + i]
    /\ \A i, j \in DOMAIN metrics_history :
          i < j => metrics_history[i].timestamp < metrics_history[j].timestamp

\* a run of the metrics job pushed the oldest snapshot out of a full window
WindowSlid ==
    /\ Len(metrics_history) = 24
    /\ Len(Snapshots) > 24
    /\ calls >= 1
    /\ ledger_result.op = "metrics_job"
    /\ ledger_result.ok
    /\ metrics_history[24].timestamp = job_runs["metrics"]
    /\ metrics_history[24].total_users >= 1

----------------------------------------------------------------------------
\* Properties of QuerySpec

\* the state of the ledger
LedgerState == <<users, user_order, members, collaborations, leaderboard_data, templates>>

\* C20: a call of the query surface (list communities, list users, get
\* leaderboard, get a user's profile, health check) leaves every piece of
\* ledger state as it was, the stored leaderboard snapshots included
QuerySurfaceReadOnly == [][ Query => UNCHANGED LedgerState ]_vars

----------------------------------------------------------------------------
\* Properties of AwardSpec

RECURSIVE SumRewards(_)
SumRewards(badges) ==
    IF badges = <<>> THEN 0 ELSE Reward(Head(badges)) + SumRewards(Tail(badges))

\* C21: in whatever order the event loop runs the badge_awards tasks, the
\* leaderboard tasks and the award_badge calls of the API, every badge is in
\* a user's badges at most once, was granted as often as it is held (once
\* or never), and the user's xp_points are the rewards of the badges held,
\* each counted once
AwardedOnceConcurrently ==
    \A u \in DOMAIN users :
        /\ \A b \in BadgeType :
              /\ BadgeCount(users, u, b) <= 1
              /\ CopiesIn(<<u, b>>, awards_granted) = BadgeCount(users, u, b)
        /\ users[u].xp_points = SumRewards(users[u].badges)

\* the leaderboard job gave weekly_top to a user, the badge_awards job ran,
\* and an award_badge call for the same user and badge was refused
AwardRaceLost ==
    /\ ledger_result.op = "award_badge"
    /\ ledger_result.arg = "weekly_top"
    /\ ~ledger_result.ok
    /\ job_runs["leaderboard"] >= 1
    /\ job_runs["badge_awards"] >= 1
    /\ BadgeCount(users, ledger_result.value[1], "weekly_top") = 1
    /\ CopiesIn(<<ledger_result.value[1], "weekly_top">>, awards_granted) = 1

RECURSIVE SumOverUsers(_)
SumOverUsers(f) ==
    IF DOMAIN f = {} THEN 0
    ELSE LET u == CHOOSE x \in DOMAIN f : TRUE
         IN  f[u] + SumOverUsers([ v \in DOMAIN f \ {u} |-> f[v] ])

\* the criterion of a badge of the sweep
Criterion(user, badge) ==
    \/ badge = "first_comment" /\ user.weekly_engagement > 0
    \/ badge = "content_creator" /\ user.total_posts >= 5
    \/ badge = "collab_master" /\ user.collaboration_count >= 3

\* the badges the sweep has to give to a user
Newly(user) == { b \in BadgeType : Criterion(user, b) /\ ~Contains(user.badges, b) }

RECURSIVE SumRewardsOf(_)
SumRewardsOf(badges) ==
    IF badges = {} THEN 0
    ELSE LET b == CHOOSE x \in badges : TRUE
         IN  Reward(b) + SumRewardsOf(badges \ {b})

\* C29: a badge_awards sweep gives every user every badge whose criterion
\* holds and that the user does not hold (with its XP, once), gives nothing
\* else, and reports as many awards as it gave; after it no badge is left
\* to give, so a second sweep over unchanged user data awards nothing,
\* grants no XP and reports zero awards
SweepAwardsNewlyDue ==
    [][ JobRan("badge_awards") =>
          /\ DOMAIN users' = DOMAIN users
          /\ \A u \in DOMAIN users :
               /\ Range(users'[u].badges) = Range(users[u].badges) \cup Newly(users[u])
               /\ Len(users'[u].badges)
                    = Len(users[u].badges) + Cardinality(Newly(users[u]))
               /\ users'[u].xp_points = users[u].xp_points + SumRewardsOf(Newly(users[u]))
               /\ Newly(users'[u]) = {}
               /\ \A b \in BadgeType :
                    CopiesIn(<<u, b>>, awards_granted')
                      = CopiesIn(<<u, b>>, awards_granted)
                        + (IF b \in Newly(users[u]) THEN 1 ELSE 0)
          /\ Len(ledger_result'.value)
               = SumOverUsers([ u \in DOMAIN users |-> Cardinality(Newly(users[u])) ])
          /\ (\A u \in DOMAIN users : Newly(users[u]) = {}) =>
               /\ users' = users
               /\ awards_granted' = awards_granted
               /\ ledger_result'.value = <<>>
      ]_vars

\* two sweeps ran: the first gave content_creator and collab_master to a
\* user, the one that ran last gave nothing
SecondSweepGaveNothing ==
    /\ job_runs["badge_awards"] >= 2
    /\ ledger_result.op = "badge_awards_job"
    /\ ledger_result.value = <<>>
    /\ \E u \in DOMAIN users :
          /\ CopiesIn(<<u, "content_creator">>, awards_granted) = 1
          /\ CopiesIn(<<u, "collab_master">>, awards_granted) = 1
          /\ users[u].xp_points >= 45

----------------------------------------------------------------------------
\* Properties of MonitorSpec

\* C22: the health_score of every platform lies in [0, 100] in every
\* reachable state, and no operation of the orchestrator raises it (nor
\* adds or removes a platform's record)
HealthScoreBounded ==
    /\ [](\A p \in DOMAIN account_health :
            /\ account_health[p].health_score >= 0
            /\ account_health[p].health_score <= 100)
    /\ [][ /\ DOMAIN account_health' = DOMAIN account_health
           /\ \A p \in DOMAIN account_health :
                account_health'[p].health_score <= account_health[p].health_score
         ]_vars

\* execute_growth_strategy ran a strategy and its Safety Monitor cycle took
\* the health of the platform down to the floor
HealthAtFloor ==
    /\ builder_result.op = "execute_growth_strategy"
    /\ builder_result.id \in DOMAIN active_campaigns
    /\ account_health["twitter"].health_score = 0
    /\ account_health["twitter"].warnings # <<>>

----------------------------------------------------------------------------
\* Properties of ScorerSpec

\* the four rules: not private, followers within [min, max], engagement
\* rate at least the minimum, inactive for no longer than the window
PassesAllRules(target, criteria) ==
    /\ ~target.is_private
    /\ criteria.min_followers <= target.follower_count
    /\ target.follower_count <= criteria.max_followers
    /\ target.engagement_rate >= criteria.min_engagement_rate
    /\ target.hours_inactive <= criteria.max_inactive_days * 24

\* C35: the targets a run gets from the scorer are exactly the discovered
\* accounts that pass the four rules; an account inactive for longer than
\* the window, by however little, is not among them
ScorerReturnsPassing ==
    [][ \A cid \in DOMAIN campaigns, b \in ScorerBatches :
          RunStart(cid, b) =>
            LET criteria == heap[campaigns[cid]].target_criteria
                targets  == _filter_and_score_targets(b, criteria)
            IN  { targets[i] : i \in DOMAIN targets } =
                  { b[i].username : i \in { j \in DOMAIN b : PassesAllRules(b[j], criteria) } }
      ]_vars

----------------------------------------------------------------------------
\* Properties of CancelSpec

\* stop was requested: the scheduler was started and running is False again
StopRequested == registered > 0 /\ ~running

\* the actions whose execute_follow_action is asleep before the executor call
InFlight == { t.pending : t \in BagToSet(task) }

\* C31: while stop is requested no pass of the scheduler loop creates a job
\* task and no campaign run that is under way starts an action, and the
\* action that was in flight is not dropped: it leaves the set of actions in flight only by
\* being appended to the log
CooperativeCancellation ==
    [][ StopRequested /\ ~running' =>
          /\ \A j \in JobTypes : CopiesIn(j, job_tasks') <= CopiesIn(j, job_tasks)
          /\ BagCardinality(task') <= BagCardinality(task) => InFlight' \subseteq InFlight
          /\ \A a \in InFlight \ InFlight' :
                /\ Len(actions') = Len(actions) + 1
                /\ actions'[Len(actions')].target_username = a.target_username
                /\ actions'[Len(actions')].timestamp = a.timestamp
      ]_vars

----------------------------------------------------------------------------
\* Properties of LeaderSpec

ScoreOf(u) ==
    users[u].xp_points + 2 * users[u].weekly_engagement
                       + 10 * users[u].collaboration_count

\* a snapshot holds min(10, number of users) entries of distinct users, each
\* with the score of its user, in descending order of score, and no user
\* left out scores higher than one that is in
SnapshotOrdered(lb) ==
    /\ Len(lb) = Min(10, Cardinality(DOMAIN users))
    /\ \A i \in DOMAIN lb :
          /\ lb[i].user_id \in DOMAIN users
          /\ lb[i].score = ScoreOf(lb[i].user_id)
          /\ lb[i].xp_points = users[lb[i].user_id].xp_points
          /\ lb[i].weekly_engagement = users[lb[i].user_id].weekly_engagement
          /\ lb[i].collaboration_count = users[lb[i].user_id].collaboration_count
    /\ \A i, j \in DOMAIN lb :
          i < j => (lb[i].score >= lb[j].score /\ lb[i].user_id # lb[j].user_id)
    /\ \A u \in DOMAIN users :
          (\A i \in DOMAIN lb : lb[i].user_id # u) =>
              \A i \in DOMAIN lb : lb[i].score >= ScoreOf(u)

\* C10 (leaderboard ordering): for any set of users, update_leaderboard
\* returns at most 10 entries sorted descending by
\* xp_points + 2*weekly_engagement + 10*collaboration_count, containing the
\* highest-scoring users, and stores the same list as the snapshot under the
\* platform key it was given, "all" when it was given none.
LeaderboardOrdering ==
    /\ \A k \in DOMAIN leaderboard_data : SnapshotOrdered(leaderboard_data[k])
    /\ ledger_result.op = "update_leaderboard" =>
          LET key == IF ledger_result.arg = "default" THEN "all" ELSE ledger_result.arg
          IN  /\ key \in DOMAIN leaderboard_data
              /\ leaderboard_data[key] = ledger_result.value
              /\ Len(ledger_result.value) <= 10

\* update_leaderboard, called without a platform, cut a population of 11
\* users to 10 entries, the user inserted last on top
LeaderboardCut ==
    /\ Len(user_order) = 11
    /\ ledger_result.op = "update_leaderboard"
    /\ ledger_result.arg = "default"
    /\ "all" \in DOMAIN leaderboard_data
    /\ Len(leaderboard_data["all"]) = 10
    /\ leaderboard_data["all"][1].user_id = 11
    /\ leaderboard_data["all"][1].score > leaderboard_data["all"][10].score

====
